---- MODULE Spec2Model ----
(***************************************************************************)
(* A model of the Aptos vesting flow: the persisted-counter ID generator   *)
(* (src/id_generator.py, src/app.py), the four stage processors            *)
(* (src/utils/stage_processors.py, src/app.py) and the session handlers of *)
(* main() (src/app.py).                                                    *)
(*                                                                         *)
(* Five specifications share the variables:                                *)
(*   SpecIds    - sessions loading, issuing ids, ending, over one store    *)
(*   SpecStage1 - process_stage_1 applied to bounded inputs                *)
(*   SpecStages - process_stage_2, _3 and _4 applied to bounded inputs     *)
(*   SpecCalls  - the four stages called on empty and malformed tables     *)
(*   Spec       - one session clicking through Stage 1..4 of main()        *)
(***************************************************************************)
EXTENDS Integers, Sequences, FiniteSets, TLC

(***************************************************************************)
(* Bounds of the model.                                                    *)
(***************************************************************************)
\* get_next_id calls made in SpecIds, all sessions together
MaxCalls == 3
\* session ends (restarts) in SpecIds, all sessions together
MaxRestarts == 1
\* seconds the clock may advance
MaxClock == 1

(***************************************************************************)
(* Program constants.                                                      *)
(***************************************************************************)
\* f"{current_id:06d}": minimum width of the counter in an id
CounterWidth == 6
\* the default counter of load_counter
FirstCounter == 1

Sessions == {"A", "B"}

VARIABLES
    counter_file,   \* data/id_counter.json: [state, counter]
    id_counter,     \* st.session_state['id_counter'] of each session that has the key
    clock,          \* datetime.now(), in seconds after 2024-01-01 00:00:00
    issued,         \* history: per session, the calls of this lifetime that returned
    retired,        \* history: per session, counter values its ended lifetimes issued
    run,            \* history: per session [loaded, calls, failed] of this lifetime
    last_call,      \* history: the latest get_next_id call
    budget,         \* [calls, restarts] made so far, which the bounds cap
    wallets_list,   \* st.session_state['wallets_list']
    vesting_pairs,  \* st.session_state['vesting_pairs']
    stage1_data,    \* st.session_state['stage1_data']
    stage2_data,    \* st.session_state['stage2_data']
    stage3_csv_data,                \* st.session_state['stage3_csv_data']
    stage3_display_data,            \* st.session_state['stage3_display_data']
    stage4_data,    \* st.session_state['stage4_data']
    stage3_matched_transactions,    \* [present, items]: the key and its list
    anchorage_df,   \* history: the export Stage 1 was last given
    last_op,        \* history: the stage that ran last
    stage3_appended,                \* history: Match Records the latest Stage 3 run appended
    fresh_run,      \* history: "new" or "same" once Stage 1 has run, on a new export or on
                    \* the one it had before, and Stage 3 has not run since; else "no"
    stage1_runs,    \* history of the latest Stage 1 run: [wallets_df, repeat, before], its
                    \* directory, whether the run before it had the same export and
                    \* directory, and if so what that run returned
    bitwave_export  \* history of SpecStages: the export process_stage_3 was given

idvars == <<counter_file, id_counter, clock, issued, retired, run, last_call, budget>>

sessionvars ==
    <<wallets_list, vesting_pairs, stage1_data, stage2_data, stage3_csv_data,
      stage3_display_data, stage4_data, stage3_matched_transactions>>

histvars == <<anchorage_df, last_op, stage3_appended, fresh_run, stage1_runs, bitwave_export>>

vars == <<idvars, sessionvars, histvars>>

(***************************************************************************)
(* Text: a string is a sequence of one-character strings.                  *)
(***************************************************************************)
Digit(d) == <<"0", "1", "2", "3", "4", "5", "6", "7", "8", "9">>[d + 1]

RECURSIVE Decimal(_)
Decimal(n) == IF n < 10 THEN <<Digit(n)>> ELSE Append(Decimal(n \div 10), Digit(n % 10))

RECURSIVE ZeroPad(_, _)
ZeroPad(s, w) == IF Len(s) >= w THEN s ELSE ZeroPad(<<"0">> \o s, w)

\* datetime.now().strftime("%Y%m%d%H%M%S"); the clock stays within 2024-01-01
Strftime(now) ==
    ZeroPad(Decimal(2024), 4) \o ZeroPad(Decimal(1), 2) \o ZeroPad(Decimal(1), 2)
    \o ZeroPad(Decimal(now \div 3600), 2)
    \o ZeroPad(Decimal((now % 3600) \div 60), 2)
    \o ZeroPad(Decimal(now % 60), 2)

\* f"VT{timestamp}{current_id:06d}"
FormatId(now, current_id) ==
    <<"V", "T">> \o Strftime(now) \o ZeroPad(Decimal(current_id), CounterWidth)

(***************************************************************************)
(* The counter store.                                                      *)
(***************************************************************************)
FileAbsent == [state |-> "absent", counter |-> 0]
FileCorrupt == [state |-> "corrupt", counter |-> 0]
FileWith(c) == [state |-> "ok", counter |-> c]

\* the value load_counter puts in the session state
ReadCounter(file) == IF file.state = "ok" THEN file.counter ELSE FirstCounter

\* what a write of the store can come to: it succeeds, it fails before the file
\* is opened (the file is untouched), or it fails after open(..., 'w') truncated it
SaveOutcomes == {"ok", "unwritable", "truncated"}

\* save_counter with the try/except removed
SaveCounterUncaught(file, value, outcome) ==
    [file |-> CASE outcome = "ok" -> FileWith(value)
                [] outcome = "unwritable" -> file
                [] OTHER -> FileCorrupt,
     raised |-> outcome # "ok"]

\* save_counter never writes
SaveCounterSkipped(file, value, outcome) == [file |-> file, raised |-> FALSE]

SaveCounter(file, value, outcome) ==
    [file |-> CASE outcome = "ok" -> FileWith(value)
                [] outcome = "unwritable" -> file
                [] OTHER -> FileCorrupt,
     raised |-> FALSE]

\* st.session_state['id_counter'] += 1, forgotten
IncrementStuck(c) == c

Increment(c) == c + 1

\* get_next_id: the id returned (when no exception leaves the call), the session
\* counter and the store after it
GetNextIdOf(c, file, now, outcome) ==
    LET current_id == c
        next == Increment(c)
        saved == SaveCounter(file, next, outcome)
    IN  [raised |-> saved.raised,
         id |-> FormatId(now, current_id),
         current_id |-> current_id,
         counter |-> next,
         file |-> saved.file]

(***************************************************************************)
(* SpecIds: sessions over one counter store.                               *)
(***************************************************************************)
\* the session state initialize_session_state leaves, and no history
IdleSession ==
    /\ wallets_list = [cols |-> {}, rows |-> <<>>]
    /\ vesting_pairs = [cols |-> {}, rows |-> <<>>]
    /\ stage1_data = [cols |-> {}, rows |-> <<>>]
    /\ stage2_data = [cols |-> {}, rows |-> <<>>]
    /\ stage3_csv_data = [cols |-> {}, rows |-> <<>>]
    /\ stage3_display_data = [cols |-> {}, rows |-> <<>>]
    /\ stage4_data = [cols |-> {}, rows |-> <<>>]
    /\ stage3_matched_transactions = [present |-> FALSE, items |-> <<>>]
    /\ anchorage_df = [cols |-> {}, rows |-> <<>>]
    /\ last_op = "none"
    /\ stage3_appended = 0
    /\ fresh_run = "no"
    /\ stage1_runs = [wallets_df |-> [cols |-> {}, rows |-> <<>>], repeat |-> FALSE,
                      before |-> [cols |-> {}, rows |-> <<>>]]
    /\ bitwave_export = [cols |-> {}, rows |-> <<>>]

NoCall == [session |-> "none", outcome |-> "none", raised |-> FALSE,
           before |-> 0, returned |-> <<>>]

InitialFiles == {FileAbsent, FileWith(1), FileWith(999999)}

NewRun == [loaded |-> 0, calls |-> 0, failed |-> FALSE]

InitIds ==
    /\ IdleSession
    /\ counter_file \in InitialFiles
    /\ id_counter = <<>>
    /\ clock = 0
    /\ issued = [s \in Sessions |-> <<>>]
    /\ retired = [s \in Sessions |-> {}]
    /\ run = [s \in Sessions |-> NewRun]
    /\ last_call = NoCall
    /\ budget = [calls |-> 0, restarts |-> 0]

SetCounter(s, v) ==
    [t \in DOMAIN id_counter \cup {s} |-> IF t = s THEN v ELSE id_counter[t]]

\* UniqueIDGenerator(): load_counter of a session that has no counter yet
LoadCounter(s) ==
    /\ s \notin DOMAIN id_counter
    /\ id_counter' = SetCounter(s, ReadCounter(counter_file))
    /\ run' = [run EXCEPT ![s].loaded = ReadCounter(counter_file)]
    /\ UNCHANGED <<counter_file, clock, issued, retired, last_call, budget>>
    /\ UNCHANGED <<sessionvars, histvars>>

GetNextId(s, outcome) ==
    /\ s \in DOMAIN id_counter
    /\ budget.calls < MaxCalls
    /\ LET r == GetNextIdOf(id_counter[s], counter_file, clock, outcome)
       IN  /\ id_counter' = SetCounter(s, r.counter)
           /\ counter_file' = r.file
           /\ issued' = IF r.raised THEN issued
                        ELSE [issued EXCEPT ![s] = Append(@, [id |-> r.id, counter |-> r.current_id])]
           /\ run' = [run EXCEPT ![s].calls = @ + 1,
                                 ![s].failed = @ \/ outcome # "ok"]
           /\ last_call' = [session |-> s, outcome |-> outcome, raised |-> r.raised,
                            before |-> id_counter[s],
                            returned |-> IF r.raised THEN <<>> ELSE r.id]
    /\ budget' = [budget EXCEPT !.calls = @ + 1]
    /\ UNCHANGED <<clock, retired>>
    /\ UNCHANGED <<sessionvars, histvars>>

\* the session ends: its session state is discarded, the store stays
EndSession(s) ==
    /\ s \in DOMAIN id_counter
    /\ budget.restarts < MaxRestarts
    /\ id_counter' = [t \in DOMAIN id_counter \ {s} |-> id_counter[t]]
    /\ retired' = [retired EXCEPT ![s] = @ \cup {issued[s][i].counter : i \in 1..Len(issued[s])}]
    /\ issued' = [issued EXCEPT ![s] = <<>>]
    /\ run' = [run EXCEPT ![s] = NewRun]
    /\ budget' = [budget EXCEPT !.restarts = @ + 1]
    /\ last_call' = IF last_call.session = s THEN NoCall ELSE last_call
    /\ UNCHANGED <<counter_file, clock>>
    /\ UNCHANGED <<sessionvars, histvars>>

Tick ==
    /\ clock < MaxClock
    /\ clock' = clock + 1
    /\ UNCHANGED <<counter_file, id_counter, issued, retired, run, last_call, budget>>
    /\ UNCHANGED <<sessionvars, histvars>>

NextIds ==
    \/ \E s \in Sessions : LoadCounter(s)
    \/ \E s \in Sessions, outcome \in SaveOutcomes : GetNextId(s, outcome)
    \/ \E s \in Sessions : EndSession(s)
    \/ Tick

SpecIds == InitIds /\ [][NextIds]_vars

(***************************************************************************)
(* Tables. A DataFrame is [cols, rows]; a cell that pandas reads as NaN    *)
(* (an empty cell) is NaN. A name or an address is a sequence of words,    *)
(* which stands for the words joined by single spaces.                     *)
(***************************************************************************)
NaN == <<>>

\* pd.DataFrame()
EmptyFrame == [cols |-> {}, rows |-> <<>>]

\* DataFrame.empty
IsEmpty(df) == df.cols = {} \/ df.rows = <<>>

\* a cell that is no date or time: pd.to_datetime and datetime.combine raise on it
Unparsable == -1

\* no exception, as the error of a try block
NoError == "none"

\* an except clause that takes KeyError alone
HandledKeyErrorOnly(error) == error = "KeyError"

\* except Exception as e: whether the clause takes the error a try block raised;
\* KeyError, ValueError and TypeError are the classes the stages can raise
Handled(error) == error \in {"KeyError", "ValueError", "TypeError"}

\* the words of the model, in the order Python compares strings
WordOrder == <<"0xA", "0xB", "Aptos", "Beneficiary", "TeamA", "TeamB", "tokens", "vesting">>

Rank(w) == CHOOSE i \in 1..Len(WordOrder) : WordOrder[i] = w

\* a < b on strings: a space sorts before every character of a word
RECURSIVE StrLess(_, _)
StrLess(a, b) ==
    IF b = <<>> THEN FALSE
    ELSE IF a = <<>> THEN TRUE
    ELSE IF Head(a) = Head(b) THEN StrLess(Tail(a), Tail(b))
    ELSE Rank(Head(a)) < Rank(Head(b))

(***************************************************************************)
(* Dates and times. A timestamp is a number of seconds after               *)
(* 2024-01-01 00:00:00 (naive, as given); a date is the day of 2024.       *)
(***************************************************************************)
SecondsPerDay == 86400

\* Series.dt.date
DateOf(t) == (t \div SecondsPerDay) + 1

\* datetime.combine(date, datetime.min.time())
Midnight(date) == (date - 1) * SecondsPerDay

(***************************************************************************)
(* Stage 1: process_stage_1.                                               *)
(***************************************************************************)
AnchorageColumns ==
    {"End Time", "Type", "Asset Type", "Asset Quantity (Before Fee)", "Value (USD)",
     "Fee Quantity", "Fee Value (USD)", "Fee Asset Type", "Source Addresses",
     "Destination Address"}

\* anchorage_df['Type'] == 'Balance Adjustment', falling back on a match that
\* ignores case when no row matches exactly
IsBalanceAdjustmentAnyCase(df, r) ==
    IF \E i \in 1..Len(df.rows) : df.rows[i].Type = "Balance Adjustment"
    THEN r.Type = "Balance Adjustment"
    ELSE r.Type \in {"Balance Adjustment", "balance adjustment"}

\* anchorage_df['Type'] == 'Balance Adjustment'
IsBalanceAdjustment(df, r) == r.Type = "Balance Adjustment"

RECURSIVE SelectRows(_, _, _)
SelectRows(df, rows, i) ==
    IF i > Len(rows) THEN <<>>
    ELSE IF IsBalanceAdjustment(df, rows[i])
         THEN <<rows[i]>> \o SelectRows(df, rows, i + 1)
         ELSE SelectRows(df, rows, i + 1)

\* the rows of anchorage_df[anchorage_df['Type'] == 'Balance Adjustment']
BalanceAdjustments(df) == SelectRows(df, df.rows, 1)

\* groupby(['Date']): the key of a row, without the destination address
SameGroupByDate(g, r) == g.Date = DateOf(r.EndTime)

\* groupby(['Date', 'Destination Address']): whether row r falls in group g
SameGroup(g, r) == g.Date = DateOf(r.EndTime) /\ g.Destination = r.Destination

\* agg({'Asset Quantity (Before Fee)': 'sum', 'Value (USD)': 'sum'})
AddRow(g, r) == [g EXCEPT !.Quantity = @ + r.Quantity, !.Value = @ + r.Value]

\* the groups of the rows, in order of first appearance; groupby drops the rows
\* whose key holds a NaN
RECURSIVE Aggregate(_, _, _)
Aggregate(groups, rows, i) ==
    IF i > Len(rows) THEN groups
    ELSE LET r == rows[i]
             hit == {k \in 1..Len(groups) : SameGroup(groups[k], r)}
         IN  IF r.Destination = NaN THEN Aggregate(groups, rows, i + 1)
             ELSE IF hit = {}
             THEN Aggregate(
                      Append(groups, [Date |-> DateOf(r.EndTime), Destination |-> r.Destination,
                                      Quantity |-> r.Quantity, Value |-> r.Value]),
                      rows, i + 1)
             ELSE LET k == CHOOSE k \in hit : TRUE
                  IN  Aggregate([groups EXCEPT ![k] = AddRow(@, r)], rows, i + 1)

\* a sorts before b by (Date, field f)
KeyLess(a, b, f) == a.Date < b.Date \/ (a.Date = b.Date /\ StrLess(a[f], b[f]))

\* a stable sort by (Date, field f): row r goes after the rows not above it
RECURSIVE InsertRow(_, _, _)
InsertRow(sorted, r, f) ==
    IF sorted = <<>> THEN <<r>>
    ELSE IF KeyLess(r, sorted[Len(sorted)], f)
         THEN Append(InsertRow(SubSeq(sorted, 1, Len(sorted) - 1), r, f), sorted[Len(sorted)])
         ELSE Append(sorted, r)

RECURSIVE SortRows(_, _, _)
SortRows(rows, i, f) ==
    IF i = 0 THEN <<>> ELSE InsertRow(SortRows(rows, i - 1, f), rows[i], f)

\* groupby(...).agg(...).reset_index(): the groups sorted by their key
GroupBy(rows) == LET g == Aggregate(<<>>, rows, 1) IN SortRows(g, Len(g), "Destination")

\* the name the loop over wallets_lookup leaves for an address: that of no entry
WalletNameNever(wallets_df, address) == address

\* the name the loop over wallets_lookup leaves for an address: dict(zip(...))
\* keeps the last entry of each address, and a NaN address is passed over
WalletName(wallets_df, address) ==
    IF ~IsEmpty(wallets_df) /\ "Addresses" \in wallets_df.cols /\ "Name" \in wallets_df.cols
    THEN LET hit == {k \in 1..Len(wallets_df.rows) :
                        /\ wallets_df.rows[k].Addresses # NaN
                        /\ wallets_df.rows[k].Addresses = address}
         IN  IF hit = {} THEN address
             ELSE wallets_df.rows[CHOOSE k \in hit : \A j \in hit : k >= j].Name
    ELSE address

\* grouped with its 'Wallet Name' column filled in
Named(grouped, wallets_df) ==
    [k \in 1..Len(grouped) |->
        [Date |-> grouped[k].Date,
         Destination |-> grouped[k].Destination,
         WalletName |-> WalletName(wallets_df, grouped[k].Destination),
         Quantity |-> grouped[k].Quantity,
         Value |-> grouped[k].Value]]

Stage1Columns == {"Date", "Wallet Name", "Asset Quantity (Before Fee)", "Value (USD)"}

\* grouped[['Date', 'Wallet Name', ...]]
Project(rows) ==
    [k \in 1..Len(rows) |->
        [Date |-> rows[k].Date, WalletName |-> rows[k].WalletName,
         Quantity |-> rows[k].Quantity, Value |-> rows[k].Value]]

\* the columns process_stage_1 reads
Stage1Reads ==
    {"Type", "End Time", "Destination Address", "Asset Quantity (Before Fee)", "Value (USD)"}

\* the error the try block of process_stage_1 raises: the filter reads 'Type';
\* with a row left, pd.to_datetime reads 'End Time' and parses it, and the
\* grouping reads the other columns
Stage1Error(df) ==
    IF "Type" \notin df.cols THEN "KeyError"
    ELSE IF BalanceAdjustments(df) = <<>> THEN NoError
    ELSE IF "End Time" \notin df.cols THEN "KeyError"
    ELSE IF \E k \in 1..Len(df.rows) :
                IsBalanceAdjustment(df, df.rows[k]) /\ df.rows[k].EndTime = Unparsable
         THEN "ValueError"
    ELSE IF ~(Stage1Reads \subseteq df.cols) THEN "KeyError"
    ELSE NoError

\* process_stage_1; an error raised inside the try is taken by the except, which
\* returns an empty frame
ProcessStage1(df, wallets_df) ==
    IF Stage1Error(df) # NoError
    THEN EmptyFrame
    ELSE LET balance_adjustments == BalanceAdjustments(df)
         IN  IF balance_adjustments = <<>>
             THEN EmptyFrame
             ELSE LET grouped == Named(GroupBy(balance_adjustments), wallets_df)
                      result == Project(grouped)
                  IN  [cols |-> Stage1Columns,
                       rows |-> SortRows(result, Len(result), "WalletName")]

(***************************************************************************)
(* Formatted dates. The dates of the model lie in January and February     *)
(* 2024; a formatted string is the tuple of the numbers strftime writes.   *)
(***************************************************************************)
DaysInJanuary == 31

MonthOf(date) == IF date <= DaysInJanuary THEN 1 ELSE 2

DayOf(date) == IF date <= DaysInJanuary THEN date ELSE date - DaysInJanuary

\* datetime.combine(date, 12:00).strftime('%m/%d/%Y %H:%M:%S')
TimeFormatted(date) == <<MonthOf(date), DayOf(date), 2024, 12, 0, 0>>

\* datetime.strptime(time, '%m/%d/%Y %H:%M:%S').date()
ParsedDate(time) == IF time[1] = 1 THEN time[2] ELSE DaysInJanuary + time[2]

\* date.strftime('%m%d%y')
ShortDate(date) == <<MonthOf(date), DayOf(date), 2024 % 100>>

(***************************************************************************)
(* Stage 2: process_stage_2 and its lookups.                               *)
(***************************************************************************)
\* None, as an account id
NoAccount == ""

\* wallet_name.replace("Aptos ", ""): every "Aptos" that a word follows goes
RECURSIVE RemoveAptos(_)
RemoveAptos(name) ==
    IF Len(name) <= 1 THEN name
    ELSE IF Head(name) = "Aptos" THEN RemoveAptos(Tail(name))
         ELSE <<Head(name)>> \o RemoveAptos(Tail(name))

\* wallet_name.startswith("Aptos ")
StartsWithAptos(name) == Len(name) >= 2 /\ name[1] = "Aptos"

SearchName(wallet_name) ==
    (IF StartsWithAptos(wallet_name) THEN RemoveAptos(wallet_name) ELSE wallet_name)
    \o <<"vesting", "tokens">>

\* wallets_df[wallets_df['Name'] == name].iloc[0]['ID'], None when nothing
\* matches or a column is missing (the KeyError is caught)
IdOfName(wallets_df, name) ==
    IF ~({"Name", "ID"} \subseteq wallets_df.cols) THEN NoAccount
    ELSE LET hit == {k \in 1..Len(wallets_df.rows) : wallets_df.rows[k].Name = name}
         IN  IF hit = {} THEN NoAccount
             ELSE wallets_df.rows[CHOOSE k \in hit : \A j \in hit : k <= j].ID

\* _get_withdrawal_account_id
WithdrawalAccountId(wallet_name, wallets_df) == IdOfName(wallets_df, SearchName(wallet_name))

\* _get_deposit_account_id looking up the originating wallet itself
DepositAccountIdOfOriginator(wallet_name, wallets_df, pairs_df) ==
    IF ~({"Originating Wallet", "Beneficiary Wallet"} \subseteq pairs_df.cols) THEN NoAccount
    ELSE LET hit == {k \in 1..Len(pairs_df.rows) : pairs_df.rows[k].Originating = wallet_name}
         IN  IF hit = {} THEN NoAccount
             ELSE IdOfName(wallets_df,
                           pairs_df.rows[CHOOSE k \in hit : \A j \in hit : k <= j].Originating)

\* _get_deposit_account_id
DepositAccountId(wallet_name, wallets_df, pairs_df) ==
    IF ~({"Originating Wallet", "Beneficiary Wallet"} \subseteq pairs_df.cols) THEN NoAccount
    ELSE LET hit == {k \in 1..Len(pairs_df.rows) : pairs_df.rows[k].Originating = wallet_name}
         IN  IF hit = {} THEN NoAccount
             ELSE IdOfName(wallets_df,
                           pairs_df.rows[CHOOSE k \in hit : \A j \in hit : k <= j].Beneficiary)

\* a ledger entry of Stage 2 with 'amount' and 'cost' taken from each other's column
TransferEntrySwapped(id, row, kind, account_id) ==
    [id |-> id,
     amount |-> row.Value,
     amountTicker |-> "APT",
     cost |-> row.Quantity,
     costTicker |-> "USD",
     time |-> TimeFormatted(row.Date),
     blockchainId |-> <<account_id, "vestingdistribute", ShortDate(row.Date)>>,
     transactionType |-> kind,
     accountId |-> account_id,
     description |-> "vesting distribution per Anchorage report"]

\* a ledger entry of Stage 2; the columns that are always '' or 'FALSE' are left out
TransferEntry(id, row, kind, account_id) ==
    [id |-> id,
     amount |-> row.Quantity,
     amountTicker |-> "APT",
     cost |-> row.Value,
     costTicker |-> "USD",
     time |-> TimeFormatted(row.Date),
     blockchainId |-> <<account_id, "vestingdistribute", ShortDate(row.Date)>>,
     transactionType |-> kind,
     accountId |-> account_id,
     description |-> "vesting distribution per Anchorage report"]

LedgerColumns ==
    {"id", "remoteContactId", "amount", "amountTicker", "cost", "costTicker", "fee",
     "feeTicker", "time", "blockchainId", "memo", "transactionType", "accountId",
     "contactId", "categoryId", "taxExempt", "tradeId", "description", "fromAddress",
     "toAddress", "groupId"}

\* pd.DataFrame(output_rows)
FrameOf(rows, cols) == IF rows = <<>> THEN EmptyFrame ELSE [cols |-> cols, rows |-> rows]

\* the loop of process_stage_2, a row whose withdrawal account is missing being
\* passed over whole
RECURSIVE Stage2LoopSkippingRow(_, _, _, _, _, _, _)
Stage2LoopSkippingRow(rows, i, wallets_df, pairs_df, now, outcome, st) ==
    IF i > Len(rows) THEN st
    ELSE LET row == rows[i]
             w == GetNextIdOf(st.counter, st.file, now, outcome)
             d == GetNextIdOf(w.counter, w.file, now, outcome)
             withdrawal_account_id == WithdrawalAccountId(row.WalletName, wallets_df)
             deposit_account_id == DepositAccountId(row.WalletName, wallets_df, pairs_df)
             withdrawal == IF withdrawal_account_id # NoAccount
                           THEN <<TransferEntry(w.id, row, "withdrawal", withdrawal_account_id)>>
                           ELSE <<>>
             deposit == IF deposit_account_id # NoAccount /\ withdrawal_account_id # NoAccount
                        THEN <<TransferEntry(d.id, row, "deposit", deposit_account_id)>>
                        ELSE <<>>
         IN  Stage2LoopSkippingRow(rows, i + 1, wallets_df, pairs_df, now, outcome,
                                   [rows |-> st.rows \o withdrawal \o deposit,
                                    counter |-> d.counter,
                                    file |-> d.file])

\* the loop of process_stage_2, the deposit id being drawn before the withdrawal id
RECURSIVE Stage2LoopDepositFirst(_, _, _, _, _, _, _)
Stage2LoopDepositFirst(rows, i, wallets_df, pairs_df, now, outcome, st) ==
    IF i > Len(rows) THEN st
    ELSE LET row == rows[i]
             d == GetNextIdOf(st.counter, st.file, now, outcome)
             w == GetNextIdOf(d.counter, d.file, now, outcome)
             withdrawal_account_id == WithdrawalAccountId(row.WalletName, wallets_df)
             deposit_account_id == DepositAccountId(row.WalletName, wallets_df, pairs_df)
             withdrawal == IF withdrawal_account_id # NoAccount
                           THEN <<TransferEntry(w.id, row, "withdrawal", withdrawal_account_id)>>
                           ELSE <<>>
             deposit == IF deposit_account_id # NoAccount
                        THEN <<TransferEntry(d.id, row, "deposit", deposit_account_id)>>
                        ELSE <<>>
         IN  Stage2LoopDepositFirst(rows, i + 1, wallets_df, pairs_df, now, outcome,
                                    [rows |-> st.rows \o withdrawal \o deposit,
                                     counter |-> w.counter,
                                     file |-> w.file])

\* the loop of process_stage_2, an id being drawn only for an entry that is emitted
RECURSIVE Stage2LoopDrawingOnEmit(_, _, _, _, _, _, _)
Stage2LoopDrawingOnEmit(rows, i, wallets_df, pairs_df, now, outcome, st) ==
    IF i > Len(rows) THEN st
    ELSE LET row == rows[i]
             withdrawal_account_id == WithdrawalAccountId(row.WalletName, wallets_df)
             deposit_account_id == DepositAccountId(row.WalletName, wallets_df, pairs_df)
             w == IF withdrawal_account_id # NoAccount
                  THEN GetNextIdOf(st.counter, st.file, now, outcome)
                  ELSE [id |-> <<>>, counter |-> st.counter, file |-> st.file]
             d == IF deposit_account_id # NoAccount
                  THEN GetNextIdOf(w.counter, w.file, now, outcome)
                  ELSE [id |-> <<>>, counter |-> w.counter, file |-> w.file]
             withdrawal == IF withdrawal_account_id # NoAccount
                           THEN <<TransferEntry(w.id, row, "withdrawal", withdrawal_account_id)>>
                           ELSE <<>>
             deposit == IF deposit_account_id # NoAccount
                        THEN <<TransferEntry(d.id, row, "deposit", deposit_account_id)>>
                        ELSE <<>>
         IN  Stage2LoopDrawingOnEmit(rows, i + 1, wallets_df, pairs_df, now, outcome,
                                     [rows |-> st.rows \o withdrawal \o deposit,
                                      counter |-> d.counter,
                                      file |-> d.file])

\* the loop of process_stage_2 from row i on; st is [rows, counter, file]: the
\* output rows so far, the session counter and the store
RECURSIVE Stage2Loop(_, _, _, _, _, _, _)
Stage2Loop(rows, i, wallets_df, pairs_df, now, outcome, st) ==
    IF i > Len(rows) THEN st
    ELSE LET row == rows[i]
             w == GetNextIdOf(st.counter, st.file, now, outcome)
             d == GetNextIdOf(w.counter, w.file, now, outcome)
             withdrawal_account_id == WithdrawalAccountId(row.WalletName, wallets_df)
             deposit_account_id == DepositAccountId(row.WalletName, wallets_df, pairs_df)
             withdrawal == IF withdrawal_account_id # NoAccount
                           THEN <<TransferEntry(w.id, row, "withdrawal", withdrawal_account_id)>>
                           ELSE <<>>
             deposit == IF deposit_account_id # NoAccount
                        THEN <<TransferEntry(d.id, row, "deposit", deposit_account_id)>>
                        ELSE <<>>
         IN  Stage2Loop(rows, i + 1, wallets_df, pairs_df, now, outcome,
                        [rows |-> st.rows \o withdrawal \o deposit,
                         counter |-> d.counter,
                         file |-> d.file])

\* the error the try block of process_stage_2 raises: the loop reads the four
\* columns of the row, and datetime.combine takes a date only
Stage2Error(stage1_df) ==
    IF IsEmpty(stage1_df) THEN NoError
    ELSE IF ~(Stage1Columns \subseteq stage1_df.cols) THEN "KeyError"
    ELSE IF \E k \in 1..Len(stage1_df.rows) : stage1_df.rows[k].Date = Unparsable
         THEN "TypeError"
    ELSE NoError

\* the rows the loop of process_stage_2 gets through before the try block raises:
\* all of them when it does not
Stage2RowsDone(stage1_df) ==
    IF ~(Stage1Columns \subseteq stage1_df.cols) THEN <<>>
    ELSE LET bad == {k \in 1..Len(stage1_df.rows) : stage1_df.rows[k].Date = Unparsable}
         IN  IF bad = {} THEN stage1_df.rows
             ELSE SubSeq(stage1_df.rows, 1, (CHOOSE k \in bad : \A j \in bad : k <= j) - 1)

\* process_stage_2: [df, counter, file]; after an error the except returns an
\* empty frame, the ids of the rows before it being drawn
ProcessStage2(stage1_df, wallets_df, pairs_df, counter, file, now, outcome) ==
    IF IsEmpty(stage1_df)
    THEN [df |-> EmptyFrame, counter |-> counter, file |-> file]
    ELSE LET st == Stage2Loop(Stage2RowsDone(stage1_df), 1, wallets_df, pairs_df, now,
                              outcome, [rows |-> <<>>, counter |-> counter, file |-> file])
         IN  IF Stage2Error(stage1_df) # NoError
             THEN [df |-> EmptyFrame, counter |-> st.counter, file |-> st.file]
             ELSE [df |-> FrameOf(st.rows, LedgerColumns), counter |-> st.counter,
                   file |-> st.file]

(***************************************************************************)
(* Stage 3: process_stage_3 and its helpers.                               *)
(***************************************************************************)
\* timedelta(days=10)
WindowDays == 10

\* _get_stage2_deposit_amount giving 0 where it has no column to read
Stage2DepositAmountOrZero(stage2_df, account_id, date) ==
    IF ~({"transactionType", "accountId", "time", "amount"} \subseteq stage2_df.cols)
    THEN [found |-> TRUE, amount |-> 0]
    ELSE LET hit == {k \in 1..Len(stage2_df.rows) :
                        /\ stage2_df.rows[k].transactionType = "deposit"
                        /\ stage2_df.rows[k].accountId = account_id
                        /\ ParsedDate(stage2_df.rows[k].time) = date}
         IN  IF hit = {} THEN [found |-> FALSE, amount |-> 0]
             ELSE [found |-> TRUE,
                   amount |-> stage2_df.rows[CHOOSE k \in hit : \A j \in hit : k <= j].amount]

\* _get_stage2_deposit_amount: [found, amount]; None is found = FALSE, also when
\* a column is missing (an empty frame has none) and the KeyError is caught
Stage2DepositAmount(stage2_df, account_id, date) ==
    IF ~({"transactionType", "accountId", "time", "amount"} \subseteq stage2_df.cols)
    THEN [found |-> FALSE, amount |-> 0]
    ELSE LET hit == {k \in 1..Len(stage2_df.rows) :
                        /\ stage2_df.rows[k].transactionType = "deposit"
                        /\ stage2_df.rows[k].accountId = account_id
                        /\ ParsedDate(stage2_df.rows[k].time) = date}
         IN  IF hit = {} THEN [found |-> FALSE, amount |-> 0]
             ELSE [found |-> TRUE,
                   amount |-> stage2_df.rows[CHOOSE k \in hit : \A j \in hit : k <= j].amount]

\* the filters with the window closed at its start and open at its end
CandidatesFromMidnight(bitwave_df, account_id, date, stage2_amount) ==
    {k \in 1..Len(bitwave_df.rows) :
        /\ bitwave_df.rows[k].walletId = account_id
        /\ bitwave_df.rows[k].dateTime >= Midnight(date)
        /\ bitwave_df.rows[k].dateTime < Midnight(date) + WindowDays * SecondsPerDay
        /\ bitwave_df.rows[k].amount > stage2_amount}

\* whether the filters of _calculate_bitwave_amount can be applied: the columns
\* they read are there, and pd.to_datetime parses the dateTime of every
\* transaction of the account
Filterable(bitwave_df, account_id) ==
    /\ {"id", "dateTime", "walletId", "amount"} \subseteq bitwave_df.cols
    /\ \A k \in 1..Len(bitwave_df.rows) :
           bitwave_df.rows[k].walletId = account_id
               => bitwave_df.rows[k].dateTime # Unparsable

\* the rows of bitwave_df that pass the account, window and amount filters; none
\* when a filter raises, the helper's except returning None
Candidates(bitwave_df, account_id, date, stage2_amount) ==
    {k \in 1..Len(bitwave_df.rows) :
        /\ Filterable(bitwave_df, account_id)
        /\ date # Unparsable
        /\ bitwave_df.rows[k].walletId = account_id
        /\ bitwave_df.rows[k].dateTime > Midnight(date)
        /\ bitwave_df.rows[k].dateTime <= Midnight(date) + WindowDays * SecondsPerDay
        /\ bitwave_df.rows[k].amount > stage2_amount}

\* _calculate_bitwave_amount returning the matched amount itself
CalculateBitwaveAmountWhole(bitwave_df, account_id, date, stage2_amount, matched) ==
    LET hit == Candidates(bitwave_df, account_id, date, stage2_amount)
    IN  IF hit = {} THEN [found |-> FALSE, amount |-> 0, matched |-> matched]
        ELSE LET first == bitwave_df.rows[CHOOSE k \in hit : \A j \in hit : k <= j]
                 calculated_amount == first.amount
             IN  [found |-> TRUE,
                  amount |-> calculated_amount,
                  matched |-> Append(matched,
                                     [id |-> first.id,
                                      bitwave_amount |-> first.amount,
                                      stage2_amount |-> stage2_amount,
                                      calculated_amount |-> calculated_amount])]

\* _calculate_bitwave_amount matching the earliest transaction that passes
CalculateBitwaveAmountEarliest(bitwave_df, account_id, date, stage2_amount, matched) ==
    LET hit == Candidates(bitwave_df, account_id, date, stage2_amount)
    IN  IF hit = {} THEN [found |-> FALSE, amount |-> 0, matched |-> matched]
        ELSE LET first == bitwave_df.rows[
                              CHOOSE k \in hit :
                                  \A j \in hit :
                                      \/ bitwave_df.rows[k].dateTime < bitwave_df.rows[j].dateTime
                                      \/ /\ bitwave_df.rows[k].dateTime = bitwave_df.rows[j].dateTime
                                         /\ k <= j]
                 calculated_amount == first.amount - stage2_amount
             IN  [found |-> TRUE,
                  amount |-> calculated_amount,
                  matched |-> Append(matched,
                                     [id |-> first.id,
                                      bitwave_amount |-> first.amount,
                                      stage2_amount |-> stage2_amount,
                                      calculated_amount |-> calculated_amount])]

\* _calculate_bitwave_amount taking a transaction of the expected amount as well
CalculateBitwaveAmountAtLeast(bitwave_df, account_id, date, stage2_amount, matched) ==
    LET hit == Candidates(bitwave_df, account_id, date, stage2_amount - 1)
    IN  IF hit = {} THEN [found |-> FALSE, amount |-> 0, matched |-> matched]
        ELSE LET first == bitwave_df.rows[CHOOSE k \in hit : \A j \in hit : k <= j]
                 calculated_amount == first.amount - stage2_amount
             IN  [found |-> TRUE,
                  amount |-> calculated_amount,
                  matched |-> Append(matched,
                                     [id |-> first.id,
                                      bitwave_amount |-> first.amount,
                                      stage2_amount |-> stage2_amount,
                                      calculated_amount |-> calculated_amount])]

\* _calculate_bitwave_amount: [found, amount, matched]; None is found = FALSE,
\* matched is the session's list after the call
CalculateBitwaveAmount(bitwave_df, account_id, date, stage2_amount, matched) ==
    LET hit == Candidates(bitwave_df, account_id, date, stage2_amount)
    IN  IF hit = {} THEN [found |-> FALSE, amount |-> 0, matched |-> matched]
        ELSE LET first == bitwave_df.rows[CHOOSE k \in hit : \A j \in hit : k <= j]
                 calculated_amount == first.amount - stage2_amount
             IN  [found |-> TRUE,
                  amount |-> calculated_amount,
                  matched |-> Append(matched,
                                     [id |-> first.id,
                                      bitwave_amount |-> first.amount,
                                      stage2_amount |-> stage2_amount,
                                      calculated_amount |-> calculated_amount])]

\* _get_wallet_name_from_id
WalletNameFromId(account_id, wallets_df) ==
    IF ~({"Name", "ID"} \subseteq wallets_df.cols) THEN <<"Unknown", "Wallet", account_id>>
    ELSE LET hit == {k \in 1..Len(wallets_df.rows) : wallets_df.rows[k].ID = account_id}
         IN  IF hit = {} THEN <<"Unknown", "Wallet", account_id>>
             ELSE wallets_df.rows[CHOOSE k \in hit : \A j \in hit : k <= j].Name

\* a ledger entry of Stage 3
RewardEntry(id, date, account_id, calculated_amount) ==
    [id |-> id,
     amount |-> calculated_amount,
     amountTicker |-> "APT",
     cost |-> "",
     costTicker |-> "",
     time |-> TimeFormatted(date),
     blockchainId |-> <<account_id, "vestingstakingrewards", ShortDate(date)>>,
     transactionType |-> "deposit",
     accountId |-> account_id,
     description |-> "staking reward from vesting distribution per Anchorage report"]

\* the loop of process_stage_3 from row i on; st is [rows, display, counter, file,
\* matched]
RECURSIVE Stage3Loop(_, _, _, _, _, _, _, _, _)
Stage3Loop(rows, i, stage2_df, bitwave_df, wallets_df, pairs_df, now, outcome, st) ==
    IF i > Len(rows) THEN st
    ELSE LET row == rows[i]
             account_id == DepositAccountId(row.WalletName, wallets_df, pairs_df)
             expected == Stage2DepositAmount(stage2_df, account_id, row.Date)
             calc == CalculateBitwaveAmount(bitwave_df, account_id, row.Date,
                                            expected.amount, st.matched)
             next == GetNextIdOf(st.counter, st.file, now, outcome)
         IN  IF account_id = NoAccount \/ ~expected.found
             THEN Stage3Loop(rows, i + 1, stage2_df, bitwave_df, wallets_df, pairs_df,
                             now, outcome, st)
             ELSE IF ~calc.found \/ calc.amount <= 0
             THEN Stage3Loop(rows, i + 1, stage2_df, bitwave_df, wallets_df, pairs_df,
                             now, outcome, [st EXCEPT !.matched = calc.matched])
             ELSE Stage3Loop(rows, i + 1, stage2_df, bitwave_df, wallets_df, pairs_df,
                             now, outcome,
                             [rows |-> Append(st.rows,
                                              RewardEntry(next.id, row.Date, account_id,
                                                          calc.amount)),
                              display |-> Append(st.display,
                                                 [Date |-> row.Date,
                                                  WalletName |-> WalletNameFromId(account_id,
                                                                                  wallets_df),
                                                  Amount |-> calc.amount]),
                              counter |-> next.counter,
                              file |-> next.file,
                              matched |-> calc.matched])

\* the error the try block of process_stage_3 raises: the loop reads 'Date' and
\* 'Wallet Name' of the row; every later read is inside a helper's own try
Stage3Error(stage1_df) ==
    IF IsEmpty(stage1_df) THEN NoError
    ELSE IF ~({"Date", "Wallet Name"} \subseteq stage1_df.cols) THEN "KeyError"
    ELSE NoError

\* process_stage_3: [csv, display, counter, file, matched]; the error is raised at
\* the first row, and the except returns two empty frames
ProcessStage3(stage1_df, stage2_df, bitwave_df, wallets_df, pairs_df, counter, file, now, outcome, matched) ==
    IF IsEmpty(stage1_df) \/ Stage3Error(stage1_df) # NoError
    THEN [csv |-> EmptyFrame, display |-> EmptyFrame, counter |-> counter, file |-> file,
          matched |-> matched]
    ELSE LET st == Stage3Loop(stage1_df.rows, 1, stage2_df, bitwave_df, wallets_df, pairs_df,
                              now, outcome,
                              [rows |-> <<>>, display |-> <<>>, counter |-> counter,
                               file |-> file, matched |-> matched])
         IN  [csv |-> FrameOf(st.rows, LedgerColumns),
              display |-> FrameOf(st.display, {"Date", "Wallet Name", "Amount"}),
              counter |-> st.counter,
              file |-> st.file,
              matched |-> st.matched]

(***************************************************************************)
(* Stage 4: process_stage_4.                                               *)
(***************************************************************************)
\* process_stage_4 listing the Match Records from the latest back
ProcessStage4Backwards(matched) ==
    IF ~matched.present THEN EmptyFrame
    ELSE FrameOf([k \in 1..Len(matched.items) |->
                     [transactionID |-> matched.items[Len(matched.items) + 1 - k].id,
                      action |-> "ignore"]],
                 {"transactionID", "action"})

\* process_stage_4
ProcessStage4(matched) ==
    IF ~matched.present THEN EmptyFrame
    ELSE FrameOf([k \in 1..Len(matched.items) |->
                     [transactionID |-> matched.items[k].id, action |-> "ignore"]],
                 {"transactionID", "action"})

(***************************************************************************)
(* SpecStage1: process_stage_1 applied to the bounded inputs.              *)
(***************************************************************************)
\* the most rows an export of SpecStage1 has
MaxRows == 3

\* End Time values: two times of 2024-01-05, and midnight opening 2024-01-06
EndTimes == {4 * SecondsPerDay + 8 * 3600, 4 * SecondsPerDay + SecondsPerDay - 1, 5 * SecondsPerDay}

RowKinds ==
    [Type : {"Balance Adjustment", "balance adjustment"},
     EndTime : EndTimes,
     Destination : {<<"0xA">>, <<"0xB">>, NaN}]

RECURSIVE Pow(_, _)
Pow(b, n) == IF n = 0 THEN 1 ELSE b * Pow(b, n - 1)

\* row i of an export: its quantity and value tell the rows of a sum apart
RowOf(kind, i) ==
    [Type |-> kind.Type, EndTime |-> kind.EndTime, Destination |-> kind.Destination,
     Quantity |-> Pow(2, i - 1), Value |-> 10 * Pow(3, i - 1)]

AnchorageInputs ==
    {[cols |-> AnchorageColumns, rows |-> [i \in DOMAIN kinds |-> RowOf(kinds[i], i)]] :
        kinds \in UNION {[1..n -> RowKinds] : n \in 0..MaxRows}}

AptosTeamA == <<"Aptos", "TeamA">>
TeamAVestingTokens == <<"TeamA", "vesting", "tokens">>
TeamABeneficiary == <<"TeamA", "Beneficiary">>

WalletInputs ==
    { EmptyFrame,
      [cols |-> {"ID", "Name"},
       rows |-> <<[ID |-> "W0", Name |-> AptosTeamA]>>],
      [cols |-> {"ID", "Addresses"},
       rows |-> <<[ID |-> "W0", Addresses |-> <<"0xA">>]>>],
      [cols |-> {"ID", "Name", "Addresses"},
       rows |-> <<[ID |-> "W2", Name |-> TeamABeneficiary, Addresses |-> <<"0xA">>],
                  [ID |-> "W1", Name |-> TeamAVestingTokens, Addresses |-> NaN],
                  [ID |-> "W0", Name |-> AptosTeamA, Addresses |-> <<"0xA">>]>>] }

IdleIds ==
    /\ counter_file = FileAbsent
    /\ id_counter = <<>>
    /\ clock = 0
    /\ issued = [s \in Sessions |-> <<>>]
    /\ retired = [s \in Sessions |-> {}]
    /\ run = [s \in Sessions |-> NewRun]
    /\ last_call = NoCall
    /\ budget = [calls |-> 0, restarts |-> 0]

InitStage1 ==
    /\ IdleIds
    /\ wallets_list \in WalletInputs
    /\ anchorage_df \in AnchorageInputs
    /\ vesting_pairs = EmptyFrame
    /\ stage1_data = EmptyFrame
    /\ stage2_data = EmptyFrame
    /\ stage3_csv_data = EmptyFrame
    /\ stage3_display_data = EmptyFrame
    /\ stage4_data = EmptyFrame
    /\ stage3_matched_transactions = [present |-> FALSE, items |-> <<>>]
    /\ last_op = "none"
    /\ stage3_appended = 0
    /\ fresh_run = "no"
    /\ stage1_runs = [wallets_df |-> [cols |-> {}, rows |-> <<>>], repeat |-> FALSE,
                      before |-> [cols |-> {}, rows |-> <<>>]]
    /\ bitwave_export = [cols |-> {}, rows |-> <<>>]

\* stage1_result = process_stage_1(anchorage_df, wallets_list)
ApplyStage1 ==
    /\ last_op = "none"
    /\ stage1_data' = ProcessStage1(anchorage_df, wallets_list)
    /\ last_op' = "stage1"
    /\ UNCHANGED <<idvars, wallets_list, vesting_pairs, stage2_data, stage3_csv_data,
                   stage3_display_data, stage4_data, stage3_matched_transactions,
                   anchorage_df, stage3_appended, fresh_run, stage1_runs, bitwave_export>>

NextStage1 == ApplyStage1

SpecStage1 == InitStage1 /\ [][NextStage1]_vars

(***************************************************************************)
(* Spec: one session of main(), its uploads and its four buttons.          *)
(***************************************************************************)
\* ids the session may draw in Spec
MaxIds == 5

\* the session of Spec
Me == "A"

AnchorageUploads ==
    { [cols |-> AnchorageColumns,
       rows |-> <<[Type |-> "Balance Adjustment", EndTime |-> 4 * SecondsPerDay + 8 * 3600,
                   Destination |-> <<"0xA">>, Quantity |-> 60, Value |-> 300],
                  [Type |-> "Deposit", EndTime |-> 4 * SecondsPerDay + 9 * 3600,
                   Destination |-> <<"0xA">>, Quantity |-> 5, Value |-> 25],
                  [Type |-> "Balance Adjustment", EndTime |-> 4 * SecondsPerDay + 20 * 3600,
                   Destination |-> <<"0xA">>, Quantity |-> 40, Value |-> 200]>>],
      [cols |-> AnchorageColumns,
       rows |-> <<[Type |-> "Balance Adjustment", EndTime |-> 5 * SecondsPerDay + 8 * 3600,
                   Destination |-> <<"0xA">>, Quantity |-> 50, Value |-> 250],
                  [Type |-> "Balance Adjustment", EndTime |-> 5 * SecondsPerDay + 9 * 3600,
                   Destination |-> <<"0xB">>, Quantity |-> 7, Value |-> 35]>>] }

WalletUploads ==
    { [cols |-> {"ID", "Name", "Addresses"},
       rows |-> <<[ID |-> "W0", Name |-> AptosTeamA, Addresses |-> <<"0xA">>],
                  [ID |-> "W1", Name |-> TeamAVestingTokens, Addresses |-> NaN],
                  [ID |-> "W2", Name |-> TeamABeneficiary, Addresses |-> NaN]>>],
      [cols |-> {"ID", "Name", "Addresses"},
       rows |-> <<[ID |-> "W0", Name |-> AptosTeamA, Addresses |-> <<"0xA">>],
                  [ID |-> "W2", Name |-> TeamABeneficiary, Addresses |-> NaN]>>] }

PairUploads ==
    { [cols |-> {"Beneficiary Wallet", "Originating Wallet"},
       rows |-> <<[Beneficiary |-> TeamABeneficiary, Originating |-> AptosTeamA]>>] }

BitwaveColumns == {"id", "dateTime", "walletId", "amount"}

BitwaveUploads ==
    { [cols |-> BitwaveColumns,
       rows |-> <<[id |-> "bw0", dateTime |-> 4 * SecondsPerDay, walletId |-> "W2", amount |-> 500],
                  [id |-> "bw1", dateTime |-> 7 * SecondsPerDay + 10 * 3600, walletId |-> "W2",
                   amount |-> 112],
                  [id |-> "bw2", dateTime |-> 8 * SecondsPerDay, walletId |-> "W2", amount |-> 130]>>],
      [cols |-> BitwaveColumns,
       rows |-> <<[id |-> "bw3", dateTime |-> 7 * SecondsPerDay, walletId |-> "W2", amount |-> 90],
                  [id |-> "bw4", dateTime |-> 7 * SecondsPerDay, walletId |-> "W1", amount |-> 900]>>] }

\* what the store's writes come to during one handler of Spec
StoreStates == {"ok", "unwritable"}

Init ==
    /\ counter_file = FileAbsent
    /\ id_counter = [s \in {Me} |-> ReadCounter(counter_file)]
    /\ clock = 0
    /\ issued = [s \in Sessions |-> <<>>]
    /\ retired = [s \in Sessions |-> {}]
    /\ run = [s \in Sessions |-> NewRun]
    /\ last_call = NoCall
    /\ budget = [calls |-> 0, restarts |-> 0]
    /\ IdleSession

\* the wallets uploader: validate_wallets_list passed
UploadWallets(w) ==
    /\ {"ID", "Name"} \subseteq w.cols
    /\ wallets_list' = w
    /\ UNCHANGED <<idvars, vesting_pairs, stage1_data, stage2_data, stage3_csv_data,
                   stage3_display_data, stage4_data, stage3_matched_transactions, histvars>>

\* the vesting pairs uploader: validate_vesting_pairs passed
UploadPairs(p) ==
    /\ {"Beneficiary Wallet", "Originating Wallet"} \subseteq p.cols
    /\ vesting_pairs' = p
    /\ UNCHANGED <<idvars, wallets_list, stage1_data, stage2_data, stage3_csv_data,
                   stage3_display_data, stage4_data, stage3_matched_transactions, histvars>>

\* what the history keeps of a Stage 1 run on export a
Stage1History(a) ==
    LET repeat == /\ last_op # "none"
                  /\ a = anchorage_df
                  /\ wallets_list = stage1_runs.wallets_df
    IN  [wallets_df |-> wallets_list,
         repeat |-> repeat,
         before |-> IF repeat THEN stage1_data ELSE EmptyFrame]

\* "Process Stage 1", were process_stage_1 to add its rows to those the session
\* state already holds
Stage1ButtonKeepingRows(a) ==
    /\ AnchorageColumns \subseteq a.cols
    /\ stage1_data' =
          LET result == ProcessStage1(a, wallets_list)
          IN  FrameOf(stage1_data.rows \o result.rows, Stage1Columns)
    /\ anchorage_df' = a
    /\ last_op' = "stage1"
    /\ fresh_run' = IF a = anchorage_df THEN "same" ELSE "new"
    /\ stage1_runs' = Stage1History(a)
    /\ UNCHANGED <<idvars, wallets_list, vesting_pairs, stage2_data, stage3_csv_data,
                   stage3_display_data, stage4_data, stage3_matched_transactions,
                   stage3_appended, bitwave_export>>

\* "Process Stage 1" on an uploaded export that validate_anchorage_file passed
Stage1Button(a) ==
    /\ AnchorageColumns \subseteq a.cols
    /\ stage1_data' = ProcessStage1(a, wallets_list)
    /\ anchorage_df' = a
    /\ last_op' = "stage1"
    /\ fresh_run' = IF a = anchorage_df THEN "same" ELSE "new"
    /\ stage1_runs' = Stage1History(a)
    /\ UNCHANGED <<idvars, wallets_list, vesting_pairs, stage2_data, stage3_csv_data,
                   stage3_display_data, stage4_data, stage3_matched_transactions,
                   stage3_appended, bitwave_export>>

\* "Process Stage 2"
Stage2Button(outcome) ==
    /\ ~IsEmpty(stage1_data)
    /\ ~IsEmpty(wallets_list)
    /\ ~IsEmpty(vesting_pairs)
    /\ LET r == ProcessStage2(stage1_data, wallets_list, vesting_pairs,
                              id_counter[Me], counter_file, clock, outcome)
       IN  /\ budget.calls + (r.counter - id_counter[Me]) <= MaxIds
           /\ stage2_data' = r.df
           /\ id_counter' = [id_counter EXCEPT ![Me] = r.counter]
           /\ counter_file' = r.file
           /\ budget' = [budget EXCEPT !.calls = @ + (r.counter - id_counter[Me])]
    /\ last_op' = "stage2"
    /\ UNCHANGED <<clock, issued, retired, run, last_call, wallets_list, vesting_pairs,
                   stage1_data, stage3_csv_data, stage3_display_data, stage4_data,
                   stage3_matched_transactions, anchorage_df, stage3_appended, fresh_run,
                   stage1_runs, bitwave_export>>

\* "Process Stage 3" on an uploaded export that validate_bitwave_file passed
Stage3Button(b, outcome) ==
    /\ ~IsEmpty(stage1_data)
    /\ ~IsEmpty(stage2_data)
    /\ BitwaveColumns \subseteq b.cols
    /\ LET r == ProcessStage3(stage1_data, stage2_data, b, wallets_list, vesting_pairs,
                              id_counter[Me], counter_file, clock, outcome,
                              stage3_matched_transactions.items)
       IN  /\ budget.calls + (r.counter - id_counter[Me]) <= MaxIds
           /\ stage3_csv_data' = r.csv
           /\ stage3_display_data' = r.display
           /\ stage3_matched_transactions' =
                 [present |-> stage3_matched_transactions.present
                              \/ Len(r.matched) > Len(stage3_matched_transactions.items),
                  items |-> r.matched]
           /\ stage3_appended' = Len(r.matched) - Len(stage3_matched_transactions.items)
           /\ id_counter' = [id_counter EXCEPT ![Me] = r.counter]
           /\ counter_file' = r.file
           /\ budget' = [budget EXCEPT !.calls = @ + (r.counter - id_counter[Me])]
    /\ last_op' = "stage3"
    /\ fresh_run' = "no"
    /\ UNCHANGED <<clock, issued, retired, run, last_call, wallets_list, vesting_pairs,
                   stage1_data, stage2_data, stage4_data, anchorage_df, stage1_runs,
                   bitwave_export>>

\* "Process Stage 4", the Match Record list being emptied once it is listed
Stage4ButtonClearing ==
    /\ stage3_matched_transactions.present
    /\ stage3_matched_transactions.items # <<>>
    /\ stage4_data' = ProcessStage4(stage3_matched_transactions)
    /\ stage3_matched_transactions' = [present |-> TRUE, items |-> <<>>]
    /\ last_op' = "stage4"
    /\ UNCHANGED <<idvars, wallets_list, vesting_pairs, stage1_data, stage2_data,
                   stage3_csv_data, stage3_display_data,
                   anchorage_df, stage3_appended, fresh_run, stage1_runs, bitwave_export>>

\* "Process Stage 4", offered once the session holds a Match Record
Stage4Button ==
    /\ stage3_matched_transactions.present
    /\ stage3_matched_transactions.items # <<>>
    /\ stage4_data' = ProcessStage4(stage3_matched_transactions)
    /\ last_op' = "stage4"
    /\ UNCHANGED <<idvars, wallets_list, vesting_pairs, stage1_data, stage2_data,
                   stage3_csv_data, stage3_display_data, stage3_matched_transactions,
                   anchorage_df, stage3_appended, fresh_run, stage1_runs, bitwave_export>>

Next ==
    \/ \E w \in WalletUploads : UploadWallets(w)
    \/ \E p \in PairUploads : UploadPairs(p)
    \/ \E a \in AnchorageUploads : Stage1Button(a)
    \/ \E outcome \in StoreStates : Stage2Button(outcome)
    \/ \E b \in BitwaveUploads, outcome \in StoreStates : Stage3Button(b, outcome)
    \/ Stage4Button

Spec == Init /\ [][Next]_vars

(***************************************************************************)
(* SpecStages: process_stage_2, process_stage_3 and process_stage_4 called *)
(* in turn on bounded Stage 1 results, directories, pairs and reward        *)
(* exports.                                                                *)
(***************************************************************************)
\* the most rows a Stage 1 result of SpecStages has
MaxStage1Rows == 2
\* the most rows a reward export of SpecStages has
MaxBitwaveRows == 2

AptosAptosTeamA == <<"Aptos", "Aptos", "TeamA">>
AptosTeamAVestingTokens == <<"Aptos", "TeamA", "vesting", "tokens">>
TeamBBeneficiary == <<"TeamB", "Beneficiary">>

\* 2024-01-31 and 2024-02-01
Stage1Dates == {DaysInJanuary, DaysInJanuary + 1}

Stage1Kinds == [Date : Stage1Dates, WalletName : {AptosTeamA, AptosAptosTeamA, <<"0xB">>}]

\* row i of a Stage 1 result
Stage1RowOf(kind, i) ==
    [Date |-> kind.Date, WalletName |-> kind.WalletName, Quantity |-> 100 * i, Value |-> 500 * i]

\* sort_values(['Date', 'Wallet Name']) left the rows in this order; the names of a
\* directory being unique, no two rows share a date and a name
InStage1Order(rows) ==
    \A i, j \in 1..Len(rows) : i < j => KeyLess(rows[i], rows[j], "WalletName")

Stage1Results ==
    {[cols |-> Stage1Columns, rows |-> rows] :
        rows \in {r \in {[i \in DOMAIN kinds |-> Stage1RowOf(kinds[i], i)] :
                            kinds \in UNION {[1..n -> Stage1Kinds] : n \in 0..MaxStage1Rows}} :
                    InStage1Order(r)}}

\* directories: a full one and one without the vesting tokens wallets
Directories ==
    { [cols |-> {"ID", "Name", "Addresses"},
       rows |-> <<[ID |-> "W0", Name |-> AptosTeamA, Addresses |-> <<"0xA">>],
                  [ID |-> "W1", Name |-> TeamAVestingTokens, Addresses |-> NaN],
                  [ID |-> "W2", Name |-> TeamABeneficiary, Addresses |-> NaN],
                  [ID |-> "W3", Name |-> AptosTeamAVestingTokens, Addresses |-> NaN]>>],
      [cols |-> {"ID", "Name", "Addresses"},
       rows |-> <<[ID |-> "W0", Name |-> AptosTeamA, Addresses |-> <<"0xA">>],
                  [ID |-> "W2", Name |-> TeamABeneficiary, Addresses |-> NaN]>>] }

\* pair tables, each with one pair at most of an originating wallet; the second
\* names a beneficiary no directory has
PairTables ==
    { [cols |-> {"Beneficiary Wallet", "Originating Wallet"},
       rows |-> <<[Beneficiary |-> TeamABeneficiary, Originating |-> AptosTeamA],
                  [Beneficiary |-> AptosTeamA, Originating |-> AptosAptosTeamA]>>],
      [cols |-> {"Beneficiary Wallet", "Originating Wallet"},
       rows |-> <<[Beneficiary |-> TeamBBeneficiary, Originating |-> AptosTeamA]>>] }

\* reward-source transactions: at the midnight that opens each Stage 1 date, ten
\* days after each of them, of another account, and of the amount of a row
BitwaveKinds ==
    { [walletId |-> "W2", dateTime |-> Midnight(DaysInJanuary), amount |-> 250],
      [walletId |-> "W2", dateTime |-> Midnight(DaysInJanuary + 1), amount |-> 112],
      [walletId |-> "W2", dateTime |-> Midnight(DaysInJanuary) + WindowDays * SecondsPerDay,
       amount |-> 250],
      [walletId |-> "W2", dateTime |-> Midnight(DaysInJanuary + 1) + WindowDays * SecondsPerDay,
       amount |-> 130],
      [walletId |-> "W0", dateTime |-> Midnight(DaysInJanuary + 1), amount |-> 250],
      [walletId |-> "W2", dateTime |-> Midnight(DaysInJanuary + 1), amount |-> 100] }

\* row i of a reward export; the export's own ids are bw1, bw2, ...
BitwaveRowOf(kind, i) ==
    [id |-> <<"b", "w">> \o Decimal(i), dateTime |-> kind.dateTime,
     walletId |-> kind.walletId, amount |-> kind.amount]

BitwaveInputs ==
    {[cols |-> BitwaveColumns, rows |-> [i \in DOMAIN kinds |-> BitwaveRowOf(kinds[i], i)]] :
        kinds \in UNION {[1..n -> BitwaveKinds] : n \in 0..MaxBitwaveRows}}

\* the counter the session of SpecStages loaded: the next ids outgrow six digits
LoadedCounter == 999998

InitStages ==
    /\ counter_file = FileWith(LoadedCounter)
    /\ id_counter = [s \in {Me} |-> ReadCounter(counter_file)]
    /\ clock = 0
    /\ issued = [s \in Sessions |-> <<>>]
    /\ retired = [s \in Sessions |-> {}]
    /\ run = [s \in Sessions |-> IF s = Me THEN [NewRun EXCEPT !.loaded = LoadedCounter]
                                          ELSE NewRun]
    /\ last_call = NoCall
    /\ budget = [calls |-> 0, restarts |-> 0]
    /\ wallets_list \in Directories
    /\ vesting_pairs \in PairTables
    /\ stage1_data \in Stage1Results
    /\ stage2_data = EmptyFrame
    /\ stage3_csv_data = EmptyFrame
    /\ stage3_display_data = EmptyFrame
    /\ stage4_data = EmptyFrame
    /\ stage3_matched_transactions = [present |-> FALSE, items |-> <<>>]
    /\ anchorage_df = EmptyFrame
    /\ last_op = "none"
    /\ stage3_appended = 0
    /\ fresh_run = "no"
    /\ stage1_runs = [wallets_df |-> EmptyFrame, repeat |-> FALSE, before |-> EmptyFrame]
    /\ bitwave_export = EmptyFrame

\* stage2_result = process_stage_2(stage1_data, wallets_list, vesting_pairs)
ApplyStage2 ==
    /\ last_op = "none"
    /\ LET r == ProcessStage2(stage1_data, wallets_list, vesting_pairs,
                              id_counter[Me], counter_file, clock, "ok")
       IN  /\ stage2_data' = r.df
           /\ id_counter' = [id_counter EXCEPT ![Me] = r.counter]
           /\ counter_file' = r.file
    /\ last_op' = "stage2"
    /\ UNCHANGED <<clock, issued, retired, run, last_call, budget, wallets_list,
                   vesting_pairs, stage1_data, stage3_csv_data, stage3_display_data,
                   stage4_data, stage3_matched_transactions, anchorage_df, stage3_appended,
                   fresh_run, stage1_runs, bitwave_export>>

\* stage3_csv, stage3_display = process_stage_3(stage1_data, stage2_data, b, ...)
ApplyStage3(b) ==
    /\ last_op = "stage2"
    /\ LET r == ProcessStage3(stage1_data, stage2_data, b, wallets_list, vesting_pairs,
                              id_counter[Me], counter_file, clock, "ok",
                              stage3_matched_transactions.items)
       IN  /\ stage3_csv_data' = r.csv
           /\ stage3_display_data' = r.display
           /\ stage3_matched_transactions' =
                 [present |-> stage3_matched_transactions.present
                              \/ Len(r.matched) > Len(stage3_matched_transactions.items),
                  items |-> r.matched]
           /\ stage3_appended' = Len(r.matched) - Len(stage3_matched_transactions.items)
           /\ id_counter' = [id_counter EXCEPT ![Me] = r.counter]
           /\ counter_file' = r.file
    /\ bitwave_export' = b
    /\ last_op' = "stage3"
    /\ UNCHANGED <<clock, issued, retired, run, last_call, budget, wallets_list,
                   vesting_pairs, stage1_data, stage2_data, stage4_data, anchorage_df,
                   fresh_run, stage1_runs>>

\* stage4_result = process_stage_4(), whether or not Stage 3 has run
ApplyStage4 ==
    /\ last_op \in {"stage2", "stage3"}
    /\ stage4_data' = ProcessStage4(stage3_matched_transactions)
    /\ last_op' = "stage4"
    /\ UNCHANGED <<idvars, wallets_list, vesting_pairs, stage1_data, stage2_data,
                   stage3_csv_data, stage3_display_data, stage3_matched_transactions,
                   anchorage_df, stage3_appended, fresh_run, stage1_runs, bitwave_export>>

NextStages ==
    \/ ApplyStage2
    \/ \E b \in BitwaveInputs : ApplyStage3(b)
    \/ ApplyStage4

SpecStages == InitStages /\ [][NextStages]_vars

(***************************************************************************)
(* SpecCalls: the four stage functions called on tables as a caller may    *)
(* hand them over: empty, without a column they read, or holding a cell    *)
(* that is no date.                                                        *)
(***************************************************************************)
FullDirectory == CHOOSE d \in Directories : Len(d.rows) = 4

DirectoryWithoutIds == [FullDirectory EXCEPT !.cols = @ \ {"ID"}]

BothPairs == CHOOSE p \in PairTables : Len(p.rows) = 2

PairsWithoutBeneficiary == [BothPairs EXCEPT !.cols = @ \ {"Beneficiary Wallet"}]

\* a report of two Balance Adjustment rows to 0xA, of 2024-01-31 and 2024-02-01
GoodReport ==
    [cols |-> AnchorageColumns,
     rows |-> <<[Type |-> "Balance Adjustment", EndTime |-> Midnight(DaysInJanuary) + 8 * 3600,
                 Destination |-> <<"0xA">>, Quantity |-> 100, Value |-> 500],
                [Type |-> "Balance Adjustment", EndTime |-> Midnight(DaysInJanuary + 1),
                 Destination |-> <<"0xA">>, Quantity |-> 200, Value |-> 1000]>>]

\* the report, the report without a column, and with an End Time that is no time
GivenReports ==
    { GoodReport,
      [GoodReport EXCEPT !.cols = @ \ {"Destination Address"}],
      [GoodReport EXCEPT !.rows[2].EndTime = Unparsable] }

\* the Stage 1 result of GoodReport under FullDirectory
GoodStage1 ==
    [cols |-> Stage1Columns,
     rows |-> <<Stage1RowOf([Date |-> DaysInJanuary, WalletName |-> AptosTeamA], 1),
                Stage1RowOf([Date |-> DaysInJanuary + 1, WalletName |-> AptosTeamA], 2)>>]

\* no table, the table, the table without a column, and with a Date that is no date
GivenStage1 ==
    { EmptyFrame,
      GoodStage1,
      [GoodStage1 EXCEPT !.cols = @ \ {"Wallet Name"}],
      [GoodStage1 EXCEPT !.rows[2].Date = Unparsable] }

\* no table, and a Stage 2 output without its 'accountId' column
GivenStage2 ==
    { EmptyFrame,
      [cols |-> LedgerColumns \ {"accountId"},
       rows |-> <<TransferEntry(FormatId(0, FirstCounter), GoodStage1.rows[1], "deposit", "W2")>>] }

\* an export whose transaction both rows match; and one whose second transaction
\* the first row matches, the first being of the amount of the second row
GoodExports ==
    { [cols |-> BitwaveColumns,
       rows |-> <<BitwaveRowOf([walletId |-> "W2", amount |-> 250,
                                dateTime |-> Midnight(DaysInJanuary)
                                             + WindowDays * SecondsPerDay], 1)>>],
      [cols |-> BitwaveColumns,
       rows |-> <<BitwaveRowOf([walletId |-> "W2", amount |-> 200,
                                dateTime |-> Midnight(DaysInJanuary + 1)
                                             + WindowDays * SecondsPerDay], 1),
                  BitwaveRowOf([walletId |-> "W2", amount |-> 250,
                                dateTime |-> Midnight(DaysInJanuary + 1)], 2)>>] }

\* the exports, and each without its 'amount' column or with a dateTime that is
\* no time
GivenExports ==
    GoodExports
    \cup {[b EXCEPT !.cols = @ \ {"amount"}] : b \in GoodExports}
    \cup {[b EXCEPT !.rows[1].dateTime = Unparsable] : b \in GoodExports}

InitCalls ==
    /\ counter_file = FileWith(LoadedCounter)
    /\ id_counter = [s \in {Me} |-> ReadCounter(counter_file)]
    /\ clock = 0
    /\ issued = [s \in Sessions |-> <<>>]
    /\ retired = [s \in Sessions |-> {}]
    /\ run = [s \in Sessions |-> IF s = Me THEN [NewRun EXCEPT !.loaded = LoadedCounter]
                                          ELSE NewRun]
    /\ last_call = NoCall
    /\ budget = [calls |-> 0, restarts |-> 0]
    /\ wallets_list \in {FullDirectory, DirectoryWithoutIds}
    /\ vesting_pairs \in {BothPairs, PairsWithoutBeneficiary}
    /\ stage1_data \in GivenStage1
    /\ stage2_data \in GivenStage2
    /\ stage3_csv_data = EmptyFrame
    /\ stage3_display_data = EmptyFrame
    /\ stage4_data = EmptyFrame
    /\ stage3_matched_transactions = [present |-> FALSE, items |-> <<>>]
    /\ anchorage_df = EmptyFrame
    /\ last_op = "none"
    /\ stage3_appended = 0
    /\ fresh_run = "no"
    /\ stage1_runs = [wallets_df |-> EmptyFrame, repeat |-> FALSE, before |-> EmptyFrame]
    /\ bitwave_export = EmptyFrame

\* process_stage_1(a, wallets_list); an error the except does not take leaves the
\* function, and nothing is returned
CallStage1(a) ==
    /\ last_op = "none"
    /\ IF Stage1Error(a) # NoError /\ ~Handled(Stage1Error(a))
       THEN /\ last_op' = "raised"
            /\ UNCHANGED stage1_data
       ELSE /\ last_op' = "stage1"
            /\ stage1_data' = ProcessStage1(a, wallets_list)
    /\ anchorage_df' = a
    /\ UNCHANGED <<idvars, wallets_list, vesting_pairs, stage2_data, stage3_csv_data,
                   stage3_display_data, stage4_data, stage3_matched_transactions,
                   stage3_appended, fresh_run, stage1_runs, bitwave_export>>

\* process_stage_2(stage1_data, wallets_list, vesting_pairs); the ids drawn before
\* an error stay drawn
CallStage2 ==
    /\ last_op \in {"none", "stage1"}
    /\ LET r == ProcessStage2(stage1_data, wallets_list, vesting_pairs,
                              id_counter[Me], counter_file, clock, "ok")
       IN  /\ id_counter' = [id_counter EXCEPT ![Me] = r.counter]
           /\ counter_file' = r.file
           /\ IF Stage2Error(stage1_data) # NoError /\ ~Handled(Stage2Error(stage1_data))
              THEN /\ last_op' = "raised"
                   /\ UNCHANGED stage2_data
              ELSE /\ last_op' = "stage2"
                   /\ stage2_data' = r.df
    /\ UNCHANGED <<clock, issued, retired, run, last_call, budget, wallets_list,
                   vesting_pairs, stage1_data, stage3_csv_data, stage3_display_data,
                   stage4_data, stage3_matched_transactions, anchorage_df, stage3_appended,
                   fresh_run, stage1_runs, bitwave_export>>

\* process_stage_3(stage1_data, stage2_data, b, wallets_list, vesting_pairs)
CallStage3(b) ==
    /\ last_op \in {"none", "stage1", "stage2"}
    /\ LET r == ProcessStage3(stage1_data, stage2_data, b, wallets_list, vesting_pairs,
                              id_counter[Me], counter_file, clock, "ok",
                              stage3_matched_transactions.items)
       IN  /\ stage3_matched_transactions' =
                 [present |-> stage3_matched_transactions.present
                              \/ Len(r.matched) > Len(stage3_matched_transactions.items),
                  items |-> r.matched]
           /\ stage3_appended' = Len(r.matched) - Len(stage3_matched_transactions.items)
           /\ id_counter' = [id_counter EXCEPT ![Me] = r.counter]
           /\ counter_file' = r.file
           /\ IF Stage3Error(stage1_data) # NoError /\ ~Handled(Stage3Error(stage1_data))
              THEN /\ last_op' = "raised"
                   /\ UNCHANGED <<stage3_csv_data, stage3_display_data>>
              ELSE /\ last_op' = "stage3"
                   /\ stage3_csv_data' = r.csv
                   /\ stage3_display_data' = r.display
    /\ bitwave_export' = b
    /\ UNCHANGED <<clock, issued, retired, run, last_call, budget, wallets_list,
                   vesting_pairs, stage1_data, stage2_data, stage4_data, anchorage_df,
                   fresh_run, stage1_runs>>

\* process_stage_4(); its try block reads the 'id' every Match Record has
CallStage4 ==
    /\ last_op \in {"none", "stage1", "stage2", "stage3"}
    /\ stage4_data' = ProcessStage4(stage3_matched_transactions)
    /\ last_op' = "stage4"
    /\ UNCHANGED <<idvars, wallets_list, vesting_pairs, stage1_data, stage2_data,
                   stage3_csv_data, stage3_display_data, stage3_matched_transactions,
                   anchorage_df, stage3_appended, fresh_run, stage1_runs, bitwave_export>>

NextCalls ==
    \/ \E a \in GivenReports : CallStage1(a)
    \/ CallStage2
    \/ \E b \in GivenExports : CallStage3(b)
    \/ CallStage4

SpecCalls == InitCalls /\ [][NextCalls]_vars


(***************************************************************************)
(* Session claims, checked under Spec.                                     *)
(***************************************************************************)
\* C1: the number of rows Stage 4 returns equals the number of Match Records
\* the most recent Stage 3 run appended
C1_Stage4CountsLatestStage3Only ==
    last_op = "stage4" => Len(stage4_data.rows) = stage3_appended

\* C2: once Stage 1 has been processed on a new export, the Match Record list
\* is empty until that run's Stage 3 executes
C2_FreshRunStartsEmpty ==
    fresh_run = "new" => stage3_matched_transactions.items = <<>>

TimestampOf(id) == SubSeq(id, 3, 16)

\* C3: the ids get_next_id returned to one session within one lifetime of its
\* session state are pairwise distinct, whatever the clock second of the calls
C3_IdsDistinctInLifetime ==
    \A s \in Sessions :
        \A i, j \in 1..Len(issued[s]) :
            i # j => issued[s][i].id # issued[s][j].id

\* three ids in one lifetime, the first two drawn in the same second
C3_Witness ==
    \E s \in Sessions :
        /\ Len(issued[s]) = 3
        /\ TimestampOf(issued[s][1].id) = TimestampOf(issued[s][2].id)
        /\ TimestampOf(issued[s][2].id) # TimestampOf(issued[s][3].id)

\* C4: two sessions sharing the store never receive the same counter value
C4_SessionsNeverShareCounter ==
    \A s, t \in Sessions :
        s # t =>
            \A i \in 1..Len(issued[s]), j \in 1..Len(issued[t]) :
                issued[s][i].counter # issued[t][j].counter

\* C5: after a restart, no counter value the session was issued before the
\* restart is issued to it again
C5_NoReuseAfterRestart ==
    \A s \in Sessions :
        \A i \in 1..Len(issued[s]) : issued[s][i].counter \notin retired[s]

C7_SaveFailureTolerated ==
    \A s \in Sessions :
        /\ (last_call.session = s /\ last_call.outcome # "ok") =>
              /\ ~last_call.raised
              /\ issued[s] # <<>>
              /\ issued[s][Len(issued[s])].id = last_call.returned
              /\ issued[s][Len(issued[s])].counter = last_call.before
              /\ id_counter[s] = last_call.before + 1
        /\ run[s].failed =>
              /\ Len(issued[s]) = run[s].calls
              /\ \A i, j \in 1..Len(issued[s]) :
                    i # j => issued[s][i].id # issued[s][j].id

\* a write that emptied the store, after an earlier id of the same run and second
C7_Witness ==
    \E s \in Sessions :
        /\ last_call.session = s
        /\ last_call.outcome = "truncated"
        /\ counter_file = FileCorrupt
        /\ Len(issued[s]) >= 2
        /\ TimestampOf(issued[s][1].id) = TimestampOf(issued[s][2].id)

(***************************************************************************)
(* Stage 1 claims, checked under SpecStage1.                               *)
(***************************************************************************)
\* the rows of the export whose type is exactly the literal
ExactRows(df) == {i \in 1..Len(df.rows) : df.rows[i].Type = "Balance Adjustment"}

\* the (date, destination_address) pairs among those rows
Pairs(df) ==
    {<<DateOf(df.rows[i].EndTime), df.rows[i].Destination>> :
        i \in {j \in ExactRows(df) : df.rows[j].Destination # NaN}}

RowsOfPair(df, p) ==
    {i \in ExactRows(df) :
        DateOf(df.rows[i].EndTime) = p[1] /\ df.rows[i].Destination = p[2]}

RECURSIVE SumQuantity(_, _)
SumQuantity(df, S) ==
    IF S = {} THEN 0
    ELSE LET i == CHOOSE i \in S : TRUE
         IN  df.rows[i].Quantity + SumQuantity(df, S \ {i})

RECURSIVE SumValue(_, _)
SumValue(df, S) ==
    IF S = {} THEN 0
    ELSE LET i == CHOOSE i \in S : TRUE
         IN  df.rows[i].Value + SumValue(df, S \ {i})

\* the date and totals the claim gives the row of pair p
Totals(df, p) ==
    [Date |-> p[1],
     Quantity |-> SumQuantity(df, RowsOfPair(df, p)),
     Value |-> SumValue(df, RowsOfPair(df, p))]

TotalsOfRow(r) == [Date |-> r.Date, Quantity |-> r.Quantity, Value |-> r.Value]

\* C8: the Stage 1 output has exactly one row for each (date, destination_address)
\* pair among the "Balance Adjustment" rows, carrying the sums of asset_quantity
\* and value_usd over exactly the rows of that pair: the output rows and the pairs'
\* totals are the same multiset
C8_OneRowPerPairWithSums ==
    last_op = "stage1" =>
        LET pairs == Pairs(anchorage_df)
            want == [p \in pairs |-> Totals(anchorage_df, p)]
            got == [i \in 1..Len(stage1_data.rows) |-> TotalsOfRow(stage1_data.rows[i])]
        IN  /\ Len(got) = Cardinality(pairs)
            /\ \A p \in pairs :
                  Cardinality({i \in 1..Len(got) : got[i] = want[p]})
                  = Cardinality({q \in pairs : want[q] = want[p]})

\* two pairs came out, one of them summing several rows
C8_Witness ==
    /\ last_op = "stage1"
    /\ Cardinality(Pairs(anchorage_df)) >= 2
    /\ \E p \in Pairs(anchorage_df) : Cardinality(RowsOfPair(anchorage_df, p)) >= 2

\* the export without the rows whose type is not exactly the literal
RECURSIVE KeepExact(_, _)
KeepExact(rows, i) ==
    IF i > Len(rows) THEN <<>>
    ELSE IF rows[i].Type = "Balance Adjustment"
         THEN <<rows[i]>> \o KeepExact(rows, i + 1)
         ELSE KeepExact(rows, i + 1)

C9_WitnessNoExactRow ==
    /\ last_op = "stage1"
    /\ anchorage_df.rows # <<>>
    /\ ExactRows(anchorage_df) = {}
    /\ stage1_data = EmptyFrame

\* the directory entries the claim lets name an address
EntriesOf(wallets_df, address) ==
    IF ~IsEmpty(wallets_df) /\ {"Addresses", "Name"} \subseteq wallets_df.cols
    THEN {k \in 1..Len(wallets_df.rows) : wallets_df.rows[k].Addresses = address}
    ELSE {}

\* the names the claim allows for the row of an address
NamesFor(wallets_df, address) ==
    IF EntriesOf(wallets_df, address) = {} THEN {address}
    ELSE {wallets_df.rows[k].Name : k \in EntriesOf(wallets_df, address)}

\* C10: the wallet_name of the output row of a pair is the name of a directory
\* entry whose address is the pair's destination_address when there is one, and
\* the raw address when no entry has it, the directory is empty or it lacks the
\* Addresses or the Name column
C10_WalletNameResolved ==
    last_op = "stage1" =>
        LET pairs == Pairs(anchorage_df)
            want == [p \in pairs |-> Totals(anchorage_df, p)]
            names == [p \in pairs |-> NamesFor(wallets_list, p[2])]
            rows == stage1_data.rows
        IN  /\ \A p \in pairs :
                  \E i \in 1..Len(rows) :
                      TotalsOfRow(rows[i]) = want[p] /\ rows[i].WalletName \in names[p]
            /\ \A i \in 1..Len(rows) :
                  \E p \in pairs :
                      TotalsOfRow(rows[i]) = want[p] /\ rows[i].WalletName \in names[p]

\* one row took its name from the directory and another kept its raw address
C10_Witness ==
    /\ last_op = "stage1"
    /\ \E i, j \in 1..Len(stage1_data.rows) :
          /\ stage1_data.rows[i].WalletName = AptosTeamA
          /\ stage1_data.rows[j].WalletName = <<"0xB">>

(***************************************************************************)
(* Stage 2 claims, checked under SpecStages.                               *)
(***************************************************************************)
\* the digit a character writes
DigitValue(ch) ==
    CASE ch = "0" -> 0 [] ch = "1" -> 1 [] ch = "2" -> 2 [] ch = "3" -> 3 [] ch = "4" -> 4
      [] ch = "5" -> 5 [] ch = "6" -> 6 [] ch = "7" -> 7 [] ch = "8" -> 8 [] ch = "9" -> 9

RECURSIVE ParseDecimal(_)
ParseDecimal(str) ==
    IF str = <<>> THEN 0
    ELSE 10 * ParseDecimal(SubSeq(str, 1, Len(str) - 1)) + DigitValue(str[Len(str)])

\* the counter component of an id: what follows "VT" and the 14 timestamp digits
CounterOf(id) == ParseDecimal(SubSeq(id, 17, Len(id)))

\* the Stage 1 row a Stage 2 entry was made for: the run draws two ids for each
\* row, starting at the counter the session loaded
RowIndexOf(e) == ((CounterOf(e.id) - run[Me].loaded) \div 2) + 1

\* the entries of a kind Stage 2 emitted for row i
EntriesFor(i, kind) ==
    {k \in 1..Len(stage2_data.rows) :
        /\ RowIndexOf(stage2_data.rows[k]) = i
        /\ stage2_data.rows[k].transactionType = kind}

\* C12: for every Stage 1 row Stage 2 emits at most one withdrawal and at most one
\* deposit, and no other entry; the amount and cost of each entry are the row's
\* total_quantity and total_value_usd
C12_AtMostTwoEntriesPerRow ==
    last_op # "none" =>
        /\ \A k \in 1..Len(stage2_data.rows) :
              LET e == stage2_data.rows[k]
              IN  /\ RowIndexOf(e) \in 1..Len(stage1_data.rows)
                  /\ e.transactionType \in {"withdrawal", "deposit"}
                  /\ e.amount = stage1_data.rows[RowIndexOf(e)].Quantity
                  /\ e.cost = stage1_data.rows[RowIndexOf(e)].Value
        /\ \A i \in 1..Len(stage1_data.rows) :
              /\ Cardinality(EntriesFor(i, "withdrawal")) <= 1
              /\ Cardinality(EntriesFor(i, "deposit")) <= 1

\* a row with both entries after a row with none
C12_Witness ==
    /\ last_op = "stage2"
    /\ Len(stage1_data.rows) = 2
    /\ EntriesFor(1, "withdrawal") \cup EntriesFor(1, "deposit") = {}
    /\ EntriesFor(2, "withdrawal") # {}
    /\ EntriesFor(2, "deposit") # {}
    /\ Len(stage2_data.rows) = 2

\* wallet_name without a leading "Aptos " and nothing else removed
WithoutLeadingAptos(name) ==
    IF Len(name) >= 2 /\ Head(name) = "Aptos" THEN Tail(name) ELSE name

\* the directory entries named as the claim names the withdrawal account
VestingTokensEntries(wallets_df, wallet_name) ==
    {k \in 1..Len(wallets_df.rows) :
        wallets_df.rows[k].Name = WithoutLeadingAptos(wallet_name) \o <<"vesting", "tokens">>}

\* MMDDYY of the two dates of SpecStages
MonthDayYear(date) == IF date = DaysInJanuary THEN <<1, 31, 24>> ELSE <<2, 1, 24>>

\* C13: the withdrawal entry of a row is emitted exactly when the directory has an
\* entry named wallet_name without a leading "Aptos ", followed by " vesting
\* tokens"; its account is that entry's ID and its blockchain_id is
\* {account_id}.vestingdistribute.{MMDDYY}
C13_WithdrawalByLeadingAptos ==
    last_op # "none" =>
        \A i \in 1..Len(stage1_data.rows) :
            LET named == VestingTokensEntries(wallets_list, stage1_data.rows[i].WalletName)
            IN  /\ EntriesFor(i, "withdrawal") # {} <=> named # {}
                /\ \A k \in EntriesFor(i, "withdrawal") :
                      LET e == stage2_data.rows[k]
                      IN  /\ e.accountId \in {wallets_list.rows[n].ID : n \in named}
                          /\ e.blockchainId =
                                <<e.accountId, "vestingdistribute",
                                  MonthDayYear(stage1_data.rows[i].Date)>>

\* C14: each half of a row is emitted exactly when its own account resolves,
\* whatever came of the other half and of the rows before it
C14_HalvesIndependent ==
    last_op # "none" =>
        \A i \in 1..Len(stage1_data.rows) :
            /\ EntriesFor(i, "withdrawal") # {}
                  <=> WithdrawalAccountId(stage1_data.rows[i].WalletName, wallets_list) # NoAccount
            /\ EntriesFor(i, "deposit") # {}
                  <=> DepositAccountId(stage1_data.rows[i].WalletName, wallets_list,
                                       vesting_pairs) # NoAccount

\* a first row with no withdrawal account got its deposit entry, and the row after
\* it got an entry too
C14_Witness ==
    /\ last_op = "stage2"
    /\ Len(stage1_data.rows) >= 2
    /\ EntriesFor(1, "withdrawal") = {}
    /\ EntriesFor(1, "deposit") # {}
    /\ EntriesFor(2, "withdrawal") \cup EntriesFor(2, "deposit") # {}

\* a row with no deposit account got its withdrawal entry
C14_WitnessDepositMissing ==
    /\ last_op = "stage2"
    /\ \E i \in 1..Len(stage1_data.rows) :
          EntriesFor(i, "withdrawal") # {} /\ EntriesFor(i, "deposit") = {}

\* the directory entries named as the beneficiary of a pair of the wallet
BeneficiaryEntries(wallets_df, pairs_df, wallet_name) ==
    {n \in 1..Len(wallets_df.rows) :
        \E k \in 1..Len(pairs_df.rows) :
            /\ pairs_df.rows[k].Originating = wallet_name
            /\ wallets_df.rows[n].Name = pairs_df.rows[k].Beneficiary}

C16_IdsFollowIssuanceOrder ==
    last_op # "none" =>
        /\ \A j, k \in 1..Len(stage2_data.rows) :
              j < k =>
                  /\ CounterOf(stage2_data.rows[j].id) < CounterOf(stage2_data.rows[k].id)
                  /\ stage2_data.rows[j].id # stage2_data.rows[k].id
        /\ \A j, k \in 1..Len(stage2_data.rows) :
              (/\ stage2_data.rows[j].transactionType = "withdrawal"
               /\ stage2_data.rows[k].transactionType = "deposit"
               /\ stage2_data.rows[j].amount = stage2_data.rows[k].amount
               /\ stage2_data.rows[j].time = stage2_data.rows[k].time)
              => CounterOf(stage2_data.rows[j].id) + 1 = CounterOf(stage2_data.rows[k].id)

\* three entries of two rows, the counter outgrowing its six digits between them
C16_Witness ==
    /\ last_op = "stage2"
    /\ Len(stage2_data.rows) >= 3
    /\ Len(stage2_data.rows[1].id) < Len(stage2_data.rows[Len(stage2_data.rows)].id)

(***************************************************************************)
(* Stage 3 and Stage 4 claims, checked under SpecStages.                   *)
(***************************************************************************)
\* process_stage_3 has run
Stage3HasRun == bitwave_export # EmptyFrame

\* the Stage 2 deposit entries of row i: their account is the row's resolved
\* account and their amount the expected amount
DepositsOf(i) == {stage2_data.rows[k] : k \in EntriesFor(i, "deposit")}

\* the reward-source transactions of account d.accountId that lie in
\* (date 00:00, date 00:00 + 10 days] and exceed the expected amount d.amount
Eligible(date, d) ==
    {k \in 1..Len(bitwave_export.rows) :
        LET t == bitwave_export.rows[k]
        IN  /\ t.walletId = d.accountId
            /\ t.dateTime > (date - 1) * 86400
            /\ t.dateTime <= (date - 1) * 86400 + 10 * 86400
            /\ t.amount > d.amount}

\* C17: every reward entry belongs to a Stage 1 row whose account has a
\* reward-source transaction in (date 00:00, date 00:00 + 10 days] above the
\* Stage 2 expected amount; its amount is that transaction's amount minus the
\* expected amount, and is positive
C17_RewardOnlyWhenExceeded ==
    Stage3HasRun =>
        \A n \in 1..Len(stage3_csv_data.rows) :
            LET e == stage3_csv_data.rows[n]
            IN  /\ e.amount > 0
                /\ \E i \in 1..Len(stage1_data.rows) :
                      \E d \in DepositsOf(i) :
                          /\ e.accountId = d.accountId
                          /\ e.time = d.time
                          /\ \E k \in Eligible(stage1_data.rows[i].Date, d) :
                                e.amount = bitwave_export.rows[k].amount - d.amount

\* the spec's scenario: expected 100, a transaction of 112, a reward of 12; and
\* a second row of the same account with no reward
C17_Witness ==
    /\ last_op = "stage3"
    /\ Len(stage1_data.rows) >= 2
    /\ Len(stage3_csv_data.rows) = 1
    /\ stage3_csv_data.rows[1].amount = 12
    /\ \A i \in 1..Len(stage1_data.rows) : DepositsOf(i) # {}

\* the Stage 1 row a Match Record was made for: the expected amounts of the rows
\* of SpecStages differ
RowOfMatch(m) == CHOOSE i \in 1..Len(stage1_data.rows) : stage1_data.rows[i].Quantity = m.stage2_amount

\* the reward-source transaction a Match Record names
SourceOf(m) == bitwave_export.rows[CHOOSE k \in 1..Len(bitwave_export.rows) : bitwave_export.rows[k].id = m.id]

\* C18: a matched transaction is never at the midnight that opens the row's date
\* or before it, nor more than 10 days after it; a transaction exactly 10 days
\* after that midnight is within the window, so a row that has one on its account
\* above the expected amount gets a match
C18_WindowHalfOpen ==
    Stage3HasRun =>
        /\ \A n \in 1..Len(stage3_matched_transactions.items) :
              LET m == stage3_matched_transactions.items[n]
                  midnight == (stage1_data.rows[RowOfMatch(m)].Date - 1) * 86400
              IN  /\ SourceOf(m).dateTime # midnight
                  /\ ~(SourceOf(m).dateTime < midnight)
                  /\ ~(SourceOf(m).dateTime > midnight + 10 * 86400)
        /\ \A i \in 1..Len(stage1_data.rows) :
              \A d \in DepositsOf(i) :
                  (\E k \in 1..Len(bitwave_export.rows) :
                      /\ bitwave_export.rows[k].walletId = d.accountId
                      /\ bitwave_export.rows[k].dateTime
                            = (stage1_data.rows[i].Date - 1) * 86400 + 10 * 86400
                      /\ bitwave_export.rows[k].amount > d.amount)
                  => \E n \in 1..Len(stage3_matched_transactions.items) :
                        stage3_matched_transactions.items[n].stage2_amount = d.amount

\* a transaction exactly 10 days after the midnight was matched, one exactly at
\* the midnight, of the same account and a larger amount, standing before it in
\* the export
C18_Witness ==
    /\ last_op = "stage3"
    /\ Len(stage1_data.rows) = 1
    /\ Len(bitwave_export.rows) = 2
    /\ bitwave_export.rows[1].dateTime = (stage1_data.rows[1].Date - 1) * 86400
    /\ bitwave_export.rows[1].walletId = "W2"
    /\ bitwave_export.rows[1].amount > stage1_data.rows[1].Quantity
    /\ Len(stage3_matched_transactions.items) = 1
    /\ SourceOf(stage3_matched_transactions.items[1]) = bitwave_export.rows[2]
    /\ bitwave_export.rows[2].dateTime = (stage1_data.rows[1].Date - 1) * 86400 + 10 * 86400

\* C19: the transaction matched for a row is the first, in the export's row
\* order, of those that pass the account, window and amount filters, and the
\* Match Record carries its id and amount
C19_FirstInExportOrder ==
    Stage3HasRun =>
        \A n \in 1..Len(stage3_matched_transactions.items) :
            LET m == stage3_matched_transactions.items[n]
                i == RowOfMatch(m)
            IN  \E d \in DepositsOf(i) :
                    LET eligible == Eligible(stage1_data.rows[i].Date, d)
                    IN  /\ eligible # {}
                        /\ LET first == CHOOSE k \in eligible : \A j \in eligible : k <= j
                           IN  /\ m.id = bitwave_export.rows[first].id
                               /\ m.bitwave_amount = bitwave_export.rows[first].amount

\* two transactions passed the filters and the one matched, the first of the
\* export, is the later and the smaller of the two
C19_Witness ==
    /\ last_op = "stage3"
    /\ Len(bitwave_export.rows) = 2
    /\ Len(stage3_matched_transactions.items) = 1
    /\ LET m == stage3_matched_transactions.items[1]
       IN  /\ \A d \in DepositsOf(RowOfMatch(m)) :
                  Cardinality(Eligible(stage1_data.rows[RowOfMatch(m)].Date, d)) = 2
           /\ m.id = bitwave_export.rows[1].id
           /\ bitwave_export.rows[1].dateTime > bitwave_export.rows[2].dateTime
           /\ bitwave_export.rows[1].amount < bitwave_export.rows[2].amount

\* the ids the ID generator issued to the ledger entries
LedgerIds ==
    {stage2_data.rows[k].id : k \in 1..Len(stage2_data.rows)}
    \cup {stage3_csv_data.rows[k].id : k \in 1..Len(stage3_csv_data.rows)}

\* C20: Stage 4 returns one {transaction_id, "ignore"} row for each Match Record,
\* in the order of the list, the id being the reward-source transaction's own and
\* never an id of the ID generator; with no Match Record it returns an empty result
C20_OneIgnoreRowPerMatch ==
    last_op = "stage4" =>
        /\ Len(stage4_data.rows) = Len(stage3_matched_transactions.items)
        /\ \A k \in 1..Len(stage4_data.rows) :
              /\ stage4_data.rows[k] =
                    [transactionID |-> stage3_matched_transactions.items[k].id,
                     action |-> "ignore"]
              /\ \E n \in 1..Len(bitwave_export.rows) :
                    bitwave_export.rows[n].id = stage4_data.rows[k].transactionID
              /\ stage4_data.rows[k].transactionID \notin LedgerIds
        /\ stage3_matched_transactions.items = <<>> => stage4_data = EmptyFrame

\* two Match Records of different transactions were listed
C20_Witness ==
    /\ last_op = "stage4"
    /\ Len(stage4_data.rows) = 2
    /\ stage4_data.rows[1].transactionID # stage4_data.rows[2].transactionID
    /\ Len(stage3_csv_data.rows) = 2

\* Stage 4 called when Stage 3 matched nothing, and when Stage 3 never ran
C20_WitnessNoMatch ==
    /\ last_op = "stage4"
    /\ Stage3HasRun
    /\ bitwave_export.rows # <<>>
    /\ stage4_data = EmptyFrame

C20_WitnessNoStage3 ==
    /\ last_op = "stage4"
    /\ ~Stage3HasRun
    /\ stage4_data = EmptyFrame

(***************************************************************************)
(* Claims on the runs as wholes.                                           *)
(***************************************************************************)
\* C25: the Match Records of one Stage 3 run name pairwise distinct reward-source
\* transactions, and Stage 4 lists no transaction id twice (SpecStages)
C25_NoTransactionMatchedTwice ==
    /\ Stage3HasRun =>
          \A j, k \in 1..Len(stage3_matched_transactions.items) :
              j # k => stage3_matched_transactions.items[j].id
                       # stage3_matched_transactions.items[k].id
    /\ last_op = "stage4" =>
          \A j, k \in 1..Len(stage4_data.rows) :
              j # k => stage4_data.rows[j].transactionID # stage4_data.rows[k].transactionID

\* C27: no step lowers the counter value the store holds (SpecIds)
C27_StoreNeverDecreases ==
    [][(counter_file.state = "ok" /\ counter_file'.state = "ok")
          => counter_file'.counter >= counter_file.counter]_vars

RECURSIVE SumOfRows(_, _, _)
SumOfRows(rows, i, f) == IF i = 0 THEN 0 ELSE rows[i][f] + SumOfRows(rows, i - 1, f)

\* C28: the totals of the Stage 1 output rows are the totals of all the input rows
\* of type "Balance Adjustment", those with no destination address included
\* (SpecStage1)
C28_TotalsConserved ==
    last_op = "stage1" =>
        /\ SumOfRows(stage1_data.rows, Len(stage1_data.rows), "Quantity")
              = SumQuantity(anchorage_df, ExactRows(anchorage_df))
        /\ SumOfRows(stage1_data.rows, Len(stage1_data.rows), "Value")
              = SumValue(anchorage_df, ExactRows(anchorage_df))

\* C29: when Stage 3 has run, every entry of the stored Stage 2 output it read
\* carries the date, quantity and value of a row of the stored Stage 1 output
\* (Spec)
C29_Stage2FromCurrentStage1 ==
    last_op = "stage3" =>
        \A k \in 1..Len(stage2_data.rows) :
            \E i \in 1..Len(stage1_data.rows) :
                /\ stage2_data.rows[k].amount = stage1_data.rows[i].Quantity
                /\ stage2_data.rows[k].cost = stage1_data.rows[i].Value
                /\ ParsedDate(stage2_data.rows[k].time) = stage1_data.rows[i].Date

\* C26 (as stated): a Stage 2 run advances the ID counter by the number of entries
\* in its output, and a Stage 3 run by the number of reward entries in its output
\* (SpecStages)
C26_CounterAdvancesByEntries ==
    /\ last_op = "stage2" =>
          id_counter[Me] = LoadedCounter + Len(stage2_data.rows)
    /\ last_op = "stage3" =>
          id_counter[Me] = LoadedCounter + Len(stage2_data.rows) + Len(stage3_csv_data.rows)

\* C26 (amended): a Stage 2 run advances the ID counter by two for every Stage 1
\* row, whether or not the row's entries are emitted, and a Stage 3 run by the
\* number of reward entries in its output (SpecStages)
C26_CounterAdvancesTwoPerRow ==
    /\ last_op = "stage2" =>
          id_counter[Me] = LoadedCounter + 2 * Len(stage1_data.rows)
    /\ last_op = "stage3" =>
          id_counter[Me] = LoadedCounter + 2 * Len(stage1_data.rows)
                                         + Len(stage3_csv_data.rows)

\* a Stage 2 run that passed over an entry, followed by a Stage 3 run that emitted
\* a reward entry
C26_Witness ==
    /\ last_op = "stage3"
    /\ Len(stage2_data.rows) < 2 * Len(stage1_data.rows)
    /\ Len(stage3_csv_data.rows) > 0

\* C23: no stage changes a table it reads, only Stage 3 changes the Match Record
\* list, and only Stage 2 and Stage 3 change the ID counter (Spec)
C23_StagesKeepTheirInputs ==
    [][/\ stage3_matched_transactions' # stage3_matched_transactions => last_op' = "stage3"
       /\ (id_counter' # id_counter \/ counter_file' # counter_file)
             => last_op' \in {"stage2", "stage3"}
       /\ stage1_data' # stage1_data => last_op' = "stage1"
       /\ stage2_data' # stage2_data => last_op' = "stage2"
       /\ last_op' # last_op => UNCHANGED <<wallets_list, vesting_pairs>>
       /\ (wallets_list' # wallets_list \/ vesting_pairs' # vesting_pairs)
             => UNCHANGED <<stage1_data, stage2_data, stage3_csv_data, stage3_display_data,
                            stage4_data, stage3_matched_transactions, id_counter,
                            counter_file>>]_vars

\* Stage 4 has listed a non-empty Match Record list, which is still there
C23_Witness ==
    /\ last_op = "stage4"
    /\ stage3_matched_transactions.items # <<>>
    /\ Len(stage4_data.rows) = Len(stage3_matched_transactions.items)
    /\ id_counter[Me] > FirstCounter

\* C21: Stage 2 given an empty Stage 1 output emits no entry and draws no id;
\* Stage 3 given an empty Stage 1 or an empty Stage 2 output emits no entry,
\* draws no id and appends no Match Record (SpecCalls)
C21_NothingWithoutPredecessor ==
    [][/\ (last_op # "stage2" /\ last_op' = "stage2" /\ IsEmpty(stage1_data))
             => /\ stage2_data' = EmptyFrame
                /\ UNCHANGED <<id_counter, counter_file>>
       /\ (last_op # "stage3" /\ last_op' = "stage3"
             /\ (IsEmpty(stage1_data) \/ IsEmpty(stage2_data)))
             => /\ stage3_csv_data' = EmptyFrame
                /\ stage3_display_data' = EmptyFrame
                /\ UNCHANGED <<id_counter, counter_file, stage3_matched_transactions>>]_vars

\* Stage 3 has been called with no Stage 2 output on a Stage 1 row whose deposit
\* account resolves and has a transaction in its window
C21_Witness ==
    /\ last_op = "stage3"
    /\ IsEmpty(stage2_data)
    /\ \E i \in 1..Len(stage1_data.rows) :
          LET account_id == DepositAccountId(stage1_data.rows[i].WalletName, wallets_list,
                                             vesting_pairs)
          IN  /\ account_id # NoAccount
              /\ Candidates(bitwave_export, account_id, stage1_data.rows[i].Date, 0) # {}

\* Stage 2 has been called with no Stage 1 output
C21_WitnessStage2 ==
    /\ last_op = "stage2"
    /\ IsEmpty(stage1_data)

\* C22: no call of a stage ends with an exception leaving it, and a call whose
\* try block raised has returned empty tables (SpecCalls)
C22_NoExceptionLeavesAStage ==
    /\ last_op # "raised"
    /\ (last_op = "stage1" /\ Stage1Error(anchorage_df) # NoError)
          => stage1_data = EmptyFrame
    /\ (last_op = "stage2" /\ Stage2Error(stage1_data) # NoError)
          => stage2_data = EmptyFrame
    /\ (last_op = "stage3" /\ Stage3Error(stage1_data) # NoError)
          => stage3_csv_data = EmptyFrame /\ stage3_display_data = EmptyFrame
    /\ last_op = "stage4"
          => stage4_data.cols \in {{}, {"transactionID", "action"}}

\* Stage 2 has returned from a Date that is no date in the second row, the ids of
\* the first row drawn
C22_Witness ==
    /\ last_op = "stage2"
    /\ Stage2Error(stage1_data) = "TypeError"
    /\ id_counter[Me] > LoadedCounter

\* Stage 1 has returned from an End Time that is no time
C22_WitnessStage1 ==
    /\ last_op = "stage1"
    /\ Stage1Error(anchorage_df) = "ValueError"

\* Stage 3 has returned from a Stage 1 table without its 'Wallet Name' column
C22_WitnessStage3 ==
    /\ last_op = "stage3"
    /\ Stage3Error(stage1_data) = "KeyError"

\* C24: after a run of Stage 3, one that ended in a caught error included, the
\* Match Records the run appended are as many as the entries and as the display
\* rows it returned, and the i-th of them holds the amount of the i-th entry
\* (SpecCalls)
C24_OneMatchRecordPerEntry ==
    last_op = "stage3" =>
        /\ stage3_appended = Len(stage3_csv_data.rows)
        /\ stage3_appended = Len(stage3_display_data.rows)
        /\ \A i \in 1..stage3_appended :
              LET m == stage3_matched_transactions.items[
                           Len(stage3_matched_transactions.items) - stage3_appended + i]
              IN  /\ m.calculated_amount = stage3_csv_data.rows[i].amount
                  /\ m.calculated_amount = stage3_display_data.rows[i].Amount

\* a run of Stage 3 that appended two Match Records
C24_Witness ==
    /\ last_op = "stage3"
    /\ stage3_appended = 2
    /\ Len(stage3_csv_data.rows) = 2

\* a run of Stage 3 that ended in a caught error
C24_WitnessCaughtError ==
    /\ last_op = "stage3"
    /\ Stage3Error(stage1_data) # NoError
    /\ bitwave_export \in GoodExports

====
